---- MODULE Spec2Model ----
(***************************************************************************)
(* Verification model of the DeFiFlow delegated-action relay: the          *)
(* LendingPool contract (interest index, deposits, EIP-712 delegated entry *)
(* points), the DUSD and RWAAssetToken contracts it calls, and the relayer *)
(* service that forwards signed envelopes with its own key.                *)
(***************************************************************************)
EXTENDS Integers, Sequences, FiniteSets, TLC

(* ------------------------------ bounds -------------------------------- *)
\* The fixed-point unit.  The contract uses 1e27; the model scales it down so
\* that products stay small.  Every formula below is stated relative to RAY.
RAY == 10
\* block.timestamp ranges over 0..MaxTime.
MaxTime == 2
\* Delegated actions are explored while an account's nonce is below MaxNonce.
MaxNonce == 2
\* Amounts carried by calls and envelopes range over 0..MaxAmount.
MaxAmount == 2
\* dUSD minted to alice, and approved by her for the pool, before the pool is
\* used (the test setup mints to the user, who approves the pool).
InitialMint == 2

(* ----------------------------- addresses ------------------------------ *)
Alice == "alice"
Relayer == "relayer"
\* Externally owned accounts: they can sign envelopes and send transactions.
Actors == {Alice, Relayer}
\* address(this) of the LendingPool.
Pool == "pool"
\* address(this) of the CollateralVault.
Vault == "vault"
Addr == Actors \cup {Pool, Vault}
\* What ECDSA.recover yields when the signature was made over another digest:
\* an address that is none of the accounts of the model.
Stranger == "0xstranger"

\* Contracts an RWA entry point can be pointed at through its rwaToken
\* argument: the RWAAssetToken, the DUSD token, or an address without code.
RwaTarget == "RWAAssetToken"
DusdTarget == "DUSD"
NoCodeTarget == "noCode"
Targets == {RwaTarget, DusdTarget, NoCodeTarget}

Amounts == 0..MaxAmount
Nonces == 0..MaxNonce
Deadlines == 0..MaxTime
\* Constructor argument _ratePerSecond (ray units per second).
Rates == {(5 * RAY) \div 2}
\* The rate the pool's test deploys with, parseUnits("1", 9): a rate so far
\* below RAY that the product with an hour of seconds stays below RAY, as the
\* product of 1 with every time up to MaxTime does here.
TestRates == {1}

MINTER_ROLE == "MINTER_ROLE"
BURNER_ROLE == "BURNER_ROLE"
COMPLIANCE_ROLE == "COMPLIANCE_ROLE"
\* RWAAssetToken.MAX_VALUATION, scaled like the amounts.
MAX_VALUATION == 1
\* RWAAssetToken.KYC_VALIDITY_PERIOD (365 days), in seconds.
KYC_VALIDITY_PERIOD == 31536000

(* ------------------------------- state -------------------------------- *)
VARIABLES
    now,              \* block.timestamp of the next transaction
    ratePerSecond,    \* LendingPool.ratePerSecond
    lastUpdate,       \* LendingPool.lastUpdate
    index,            \* LendingPool.index
    deposits,         \* LendingPool.deposits        (depositPrincipal)
    scaledDeposits,   \* LendingPool.scaledDeposits  (scaledDeposit)
    nonces,           \* LendingPool.nonces
    dusdBal,          \* DUSD balanceOf
    dusdAllowance,    \* DUSD allowance[owner][pool]
    rwaBal,           \* RWAAssetToken balanceOf
    rwaNextAssetId,   \* RWAAssetToken.nextAssetId
    rwaRoles,         \* RWAAssetToken AccessControl: role -> holders
    rwaFrozen,        \* RWAAssetToken.frozenAccounts
    rwaWhitelist,     \* RWAAssetToken.whitelist
    rwaKycVerified,   \* RWAAssetToken.kycVerified
    rwaKycExpiry,     \* RWAAssetToken.kycExpiry
    last,             \* the last transaction: entry point and outcome
    nonceLog,         \* history: per account, the nonces of its executed envelopes
    watched,          \* history: at most one executed envelope, kept under observation
    hits,             \* relayer: per IP, requests the rate limiter has counted in its window
    window,           \* relayer: the number of the rate limiter's current window
    currentSigner,    \* relayer: let signer, the account of the current wallet
    keyRotationTimestamp, \* relayer: let keyRotationTimestamp, in milliseconds
    transactionLog,   \* relayer: const transactionLog = []
    requests,         \* relayer: requests whose handler is suspended at an await
    replies,          \* history: the responses to the requests that were submitted
    rwaAllowance,     \* RWA token allowance[owner][spender]
    positions,        \* CollateralVault.positions
    price,            \* PriceOracleMock.price
    vaultAllowance,   \* DUSD allowance[owner][vault]
    proposals,        \* Governance.proposals
    votes,            \* Governance.votes: per proposal, the accounts with hasVoted
    proposalCount,    \* Governance.proposalCount
    executions,       \* history: per proposal, the executeProposal calls that succeeded
    ballots           \* history: per proposal and account, the vote calls that succeeded

ledgerVars == <<ratePerSecond, lastUpdate, index, deposits, scaledDeposits, nonces,
                dusdBal, dusdAllowance, rwaBal, rwaNextAssetId>>
rwaConfigVars == <<rwaRoles, rwaFrozen, rwaWhitelist, rwaKycVerified, rwaKycExpiry>>
historyVars == <<nonceLog, watched>>
gatewayVars ==
    <<hits, window, currentSigner, keyRotationTimestamp, transactionLog, requests,
      replies>>
vaultVars == <<positions, price, vaultAllowance>>
\* The contracts next to the pool: what a call to the pool or a request to the
\* relayer leaves alone.
governanceVars == <<proposals, votes, proposalCount, executions, ballots>>
peripheryVars == <<rwaConfigVars, rwaAllowance, vaultVars, governanceVars>>
vars == <<now, ledgerVars, peripheryVars, last, historyVars, gatewayVars>>

\* The chain state a transaction reads and writes, as one value, so that a
\* revert is "return the state the call started from".
State ==
    [now |-> now, ratePerSecond |-> ratePerSecond, lastUpdate |-> lastUpdate,
     index |-> index, deposits |-> deposits, scaledDeposits |-> scaledDeposits,
     nonces |-> nonces, dusdBal |-> dusdBal, dusdAllowance |-> dusdAllowance,
     rwaBal |-> rwaBal, rwaNextAssetId |-> rwaNextAssetId, rwaRoles |-> rwaRoles,
     rwaFrozen |-> rwaFrozen, rwaWhitelist |-> rwaWhitelist,
     rwaKycVerified |-> rwaKycVerified, rwaKycExpiry |-> rwaKycExpiry,
     rwaAllowance |-> rwaAllowance]

\* A transaction's outcome: "ok" and the new state, or the revert reason and
\* the state it started from.
Ok(s) == [res |-> "ok", st |-> s]
Revert(s, why) == [res |-> why, st |-> s]

(* ------------------------------- DUSD --------------------------------- *)
\* ERC20.transferFrom(from, to, amount) called by the pool as spender.
dusdTransferFrom(s, from, to, amount) ==
    IF s.dusdAllowance[from] < amount THEN Revert(s, "ERC20InsufficientAllowance")
    ELSE IF s.dusdBal[from] < amount THEN Revert(s, "ERC20InsufficientBalance")
    ELSE LET s1 == [s EXCEPT !.dusdAllowance[from] = @ - amount]
             s2 == [s1 EXCEPT !.dusdBal[from] = @ - amount]
         IN  Ok([s2 EXCEPT !.dusdBal[to] = @ + amount])

\* ERC20.transfer(to, amount) called by `from`.
dusdTransfer(s, from, to, amount) ==
    IF s.dusdBal[from] < amount THEN Revert(s, "ERC20InsufficientBalance")
    ELSE LET s1 == [s EXCEPT !.dusdBal[from] = @ - amount]
         IN  Ok([s1 EXCEPT !.dusdBal[to] = @ + amount])

(* ---------------------------- LendingPool ----------------------------- *)
\* An accrual that assigns the interest to the index instead of adding it.
accrueAssigns(s) ==
    LET timePassed == s.now - s.lastUpdate IN
    IF timePassed > 0
    THEN LET interest == (timePassed * s.ratePerSecond) \div RAY
         IN  [s EXCEPT !.index = interest, !.lastUpdate = s.now]
    ELSE s

\* An accrual that adds the interest and leaves lastUpdate as it was.
accrueKeepsStamp(s) ==
    LET timePassed == s.now - s.lastUpdate IN
    IF timePassed > 0
    THEN LET interest == (timePassed * s.ratePerSecond) \div RAY
         IN  [s EXCEPT !.index = s.index + interest]
    ELSE s

\* LendingPool.accrue
accrue(s) ==
    LET timePassed == s.now - s.lastUpdate IN
    IF timePassed > 0
    THEN LET interest == (timePassed * s.ratePerSecond) \div RAY
         IN  [s EXCEPT !.index = s.index + interest, !.lastUpdate = s.now]
    ELSE s

\* LendingPool.deposit, msg.sender = sender
deposit(s, sender, amount) ==
    LET s1 == accrue(s)
        t == dusdTransferFrom(s1, sender, Pool, amount)
    IN  IF t.res # "ok" THEN Revert(s, t.res)
        ELSE LET scaledAmount == (amount * RAY) \div t.st.index
                 s2 == [t.st EXCEPT !.scaledDeposits[sender] = @ + scaledAmount]
             IN  Ok([s2 EXCEPT !.deposits[sender] = @ + amount])

\* A withdrawal without the require on deposits: the checked subtractions are
\* all that stops it.
withdrawUnchecked(s, sender, amount) ==
    LET s1 == accrue(s)
        scaledAmount == (amount * RAY) \div s1.index
    IN  IF s1.scaledDeposits[sender] < scaledAmount \/ s1.deposits[sender] < amount
        THEN Revert(s, "Panic(0x11)")
        ELSE LET s2 == [s1 EXCEPT !.scaledDeposits[sender] = @ - scaledAmount]
                 s3 == [s2 EXCEPT !.deposits[sender] = @ - amount]
                 t == dusdTransfer(s3, Pool, sender, amount)
             IN  IF t.res # "ok" THEN Revert(s, t.res) ELSE Ok(t.st)

\* A withdrawal that rounds the scaled amount up where deposit rounds it down.
withdrawRoundsUp(s, sender, amount) ==
    LET s1 == accrue(s) IN
    IF ~(s1.deposits[sender] >= amount) THEN Revert(s, "Insufficient balance")
    ELSE LET scaledAmount == (amount * RAY + s1.index - 1) \div s1.index IN
         IF s1.scaledDeposits[sender] < scaledAmount THEN Revert(s, "Panic(0x11)")
         ELSE LET s2 == [s1 EXCEPT !.scaledDeposits[sender] = @ - scaledAmount]
                  s3 == [s2 EXCEPT !.deposits[sender] = @ - amount]
                  t == dusdTransfer(s3, Pool, sender, amount)
              IN  IF t.res # "ok" THEN Revert(s, t.res) ELSE Ok(t.st)

\* LendingPool.withdraw, msg.sender = sender
withdraw(s, sender, amount) ==
    LET s1 == accrue(s) IN
    IF ~(s1.deposits[sender] >= amount) THEN Revert(s, "Insufficient balance")
    ELSE LET scaledAmount == (amount * RAY) \div s1.index IN
         IF s1.scaledDeposits[sender] < scaledAmount THEN Revert(s, "Panic(0x11)")
         ELSE LET s2 == [s1 EXCEPT !.scaledDeposits[sender] = @ - scaledAmount]
                  s3 == [s2 EXCEPT !.deposits[sender] = @ - amount]
                  t == dusdTransfer(s3, Pool, sender, amount)
              IN  IF t.res # "ok" THEN Revert(s, t.res) ELSE Ok(t.st)

\* A preview that reads the stored index and leaves out the interest pending
\* since lastUpdate.
previewStoredIndex(s, user) == (s.scaledDeposits[user] * s.index) \div RAY

\* LendingPool.previewBalance
previewBalance(s, user) ==
    LET timePassed == s.now - s.lastUpdate
        currentIndex == IF timePassed > 0
                        THEN s.index + (timePassed * s.ratePerSecond) \div RAY
                        ELSE s.index
    IN  (s.scaledDeposits[user] * currentIndex) \div RAY

(* --------------------------- RWAAssetToken ---------------------------- *)
\* AccessControl.hasRole
hasRole(s, role, account) == account \in s.rwaRoles[role]

\* modifier notFrozen(account)
notFrozen(s, account) == account \notin s.rwaFrozen

\* modifier onlyWhitelisted(account), evaluated for the caller msgSender
onlyWhitelisted(s, msgSender, account) ==
    account \in s.rwaWhitelist \/ hasRole(s, COMPLIANCE_ROLE, msgSender)

\* modifier kycValid(account)
kycValid(s, account) ==
    account \in s.rwaKycVerified /\ s.now <= s.rwaKycExpiry[account]

\* RWAAssetToken.mintAsset called by msgSender
mintAsset(s, msgSender, to, amount, ipfsCid, name, valuation) ==
    IF ~hasRole(s, MINTER_ROLE, msgSender) THEN Revert(s, "AccessControlUnauthorizedAccount")
    ELSE IF ~(amount > 0) THEN Revert(s, "Amount must be greater than 0")
    ELSE IF ~(valuation > 0 /\ valuation <= MAX_VALUATION) THEN Revert(s, "Invalid valuation")
    ELSE IF ipfsCid = "" THEN Revert(s, "IPFS CID required")
    ELSE IF name = "" THEN Revert(s, "Asset name required")
    ELSE LET s1 == [s EXCEPT !.rwaNextAssetId = @ + 1]
         IN  Ok([s1 EXCEPT !.rwaBal[to] = @ + amount])

\* RWAAssetToken.burnAsset called by msgSender
burnAsset(s, msgSender, from, amount) ==
    IF ~hasRole(s, BURNER_ROLE, msgSender) THEN Revert(s, "AccessControlUnauthorizedAccount")
    ELSE IF ~(amount > 0) THEN Revert(s, "Amount must be greater than 0")
    ELSE IF ~(s.rwaBal[from] >= amount) THEN Revert(s, "Insufficient balance")
    ELSE Ok([s EXCEPT !.rwaBal[from] = @ - amount])

\* RWAAssetToken.transfer called by msgSender
rwaTransfer(s, msgSender, to, amount) ==
    IF ~notFrozen(s, msgSender) \/ ~notFrozen(s, to) THEN Revert(s, "Account is frozen")
    ELSE IF ~onlyWhitelisted(s, msgSender, msgSender) \/ ~onlyWhitelisted(s, msgSender, to)
         THEN Revert(s, "Account not whitelisted")
    ELSE IF ~kycValid(s, msgSender) \/ ~kycValid(s, to)
         THEN Revert(s, "KYC expired or not verified")
    ELSE IF s.rwaBal[msgSender] < amount THEN Revert(s, "ERC20InsufficientBalance")
    ELSE LET s1 == [s EXCEPT !.rwaBal[msgSender] = @ - amount]
         IN  Ok([s1 EXCEPT !.rwaBal[to] = @ + amount])

\* RWAAssetToken.transferFrom called by msgSender, the spender
rwaTransferFrom(s, msgSender, from, to, amount) ==
    IF ~notFrozen(s, from) \/ ~notFrozen(s, to) THEN Revert(s, "Account is frozen")
    ELSE IF ~onlyWhitelisted(s, msgSender, from) \/ ~onlyWhitelisted(s, msgSender, to)
         THEN Revert(s, "Account not whitelisted")
    ELSE IF ~kycValid(s, from) \/ ~kycValid(s, to)
         THEN Revert(s, "KYC expired or not verified")
    ELSE IF s.rwaAllowance[from][msgSender] < amount
         THEN Revert(s, "ERC20InsufficientAllowance")
    ELSE IF s.rwaBal[from] < amount THEN Revert(s, "ERC20InsufficientBalance")
    ELSE LET s1 == [s EXCEPT !.rwaAllowance[from][msgSender] = @ - amount]
             s2 == [s1 EXCEPT !.rwaBal[from] = @ - amount]
         IN  Ok([s2 EXCEPT !.rwaBal[to] = @ + amount])

\* RWAAssetToken.isTransferAllowed
isTransferAllowed(s, from, to, amount) ==
    /\ from \notin s.rwaFrozen
    /\ to \notin s.rwaFrozen
    /\ (from \in s.rwaWhitelist \/ hasRole(s, COMPLIANCE_ROLE, from))
    /\ (to \in s.rwaWhitelist \/ hasRole(s, COMPLIANCE_ROLE, to))
    /\ from \in s.rwaKycVerified
    /\ s.now <= s.rwaKycExpiry[from]
    /\ to \in s.rwaKycVerified
    /\ s.now <= s.rwaKycExpiry[to]
    /\ s.rwaBal[from] >= amount

(* --------------------------- CollateralVault --------------------------- *)
\* 1e8, the unit of the oracle's price (8 decimals), scaled down.
PriceUnit == 2
\* CollateralVault.LTV_BPS and BPS.
LTV_BPS == 7000
BPS == 10000
\* RWA minted to each account and approved by it for the vault before the
\* vault is used (the vault's test mints to the user, who approves the vault).
VaultMint == 2
\* Amounts carried by calls to the vault.
VaultAmounts == 0..2
\* Borrowing is explored while a position's debt stays within MaxDebt.
MaxDebt == 3

\* What a call to the vault reads and writes: the vault, its oracle, and its
\* two tokens (rwa, an IERC20 with the plain ERC20 transfer functions as the
\* token of the vault's test has them, and dusd, whose vault is this vault).
VaultState ==
    [positions |-> positions, price |-> price, rwaBal |-> rwaBal,
     rwaAllowance |-> rwaAllowance, dusdBal |-> dusdBal,
     vaultAllowance |-> vaultAllowance]

\* CollateralVault.getPrice: PriceOracleMock.getPrice returns its price.
getPrice(v) == v.price

\* CollateralVault.getMaxBorrow; (collateral * price * 1e10) / 1e18 is
\* collateral * price / 1e8, rounded down.
getMaxBorrow(v, user) ==
    LET collateralValue == (v.positions[user].collateral * getPrice(v)) \div PriceUnit
    IN  (collateralValue * LTV_BPS) \div BPS

\* CollateralVault.getMaxWithdraw: the value it returns, or the panic of its
\* checked subtraction; (maxWithdrawValue * 1e18) / (price * 1e10) is
\* maxWithdrawValue * 1e8 / price, rounded down.
getMaxWithdraw(v, user) ==
    LET maxWithdrawValue == (v.positions[user].debt * BPS) \div LTV_BPS
        maxWithdrawCollateral == (maxWithdrawValue * PriceUnit) \div getPrice(v)
    IN  IF v.positions[user].collateral < maxWithdrawCollateral
        THEN [res |-> "Panic(0x11)", val |-> 0]
        ELSE [res |-> "ok", val |-> v.positions[user].collateral - maxWithdrawCollateral]

\* CollateralVault.deposit, msg.sender = sender
vaultDeposit(v, sender, amount) ==
    IF ~(amount > 0) THEN Revert(v, "Amount must be > 0")
    ELSE IF v.rwaAllowance[sender][Vault] < amount
    THEN Revert(v, "ERC20InsufficientAllowance")
    ELSE IF v.rwaBal[sender] < amount THEN Revert(v, "ERC20InsufficientBalance")
    ELSE Ok([v EXCEPT !.rwaAllowance[sender][Vault] = @ - amount,
                      !.rwaBal[sender] = @ - amount,
                      !.rwaBal[Vault] = @ + amount,
                      !.positions[sender].collateral = @ + amount])

\* CollateralVault.withdraw, msg.sender = sender
vaultWithdraw(v, sender, amount) ==
    IF ~(amount > 0) THEN Revert(v, "Amount must be > 0")
    ELSE IF ~(v.positions[sender].collateral >= amount)
    THEN Revert(v, "Insufficient collateral")
    ELSE LET maxWithdraw == getMaxWithdraw(v, sender) IN
         IF maxWithdraw.res # "ok" THEN Revert(v, maxWithdraw.res)
         ELSE IF ~(amount <= maxWithdraw.val) THEN Revert(v, "Would exceed LTV")
         ELSE IF v.rwaBal[Vault] < amount THEN Revert(v, "ERC20InsufficientBalance")
         ELSE Ok([v EXCEPT !.positions[sender].collateral = @ - amount,
                           !.rwaBal[Vault] = @ - amount,
                           !.rwaBal[sender] = @ + amount])

\* CollateralVault.borrow, msg.sender = sender; the dUSD is minted by the
\* low-level call of DUSD.mint, which the vault is entitled to.
borrow(v, sender, amount) ==
    IF ~(amount > 0) THEN Revert(v, "Amount must be > 0")
    ELSE IF ~(amount <= getMaxBorrow(v, sender)) THEN Revert(v, "Exceeds max borrowable")
    ELSE Ok([v EXCEPT !.positions[sender].debt = @ + amount,
                      !.dusdBal[sender] = @ + amount])

\* CollateralVault.repay, msg.sender = sender
repay(v, sender, amount) ==
    IF ~(amount > 0) THEN Revert(v, "Amount must be > 0")
    ELSE IF ~(v.positions[sender].debt >= amount) THEN Revert(v, "Insufficient debt")
    ELSE IF v.vaultAllowance[sender] < amount THEN Revert(v, "ERC20InsufficientAllowance")
    ELSE IF v.dusdBal[sender] < amount THEN Revert(v, "ERC20InsufficientBalance")
    ELSE Ok([v EXCEPT !.vaultAllowance[sender] = @ - amount,
                      !.dusdBal[sender] = @ - amount,
                      !.dusdBal[Vault] = @ + amount,
                      !.positions[sender].debt = @ - amount])

(* ------------------------------ Governance ----------------------------- *)
\* Proposals are explored up to MaxProposals.
MaxProposals == 2
\* Successful executions of one proposal are counted up to MaxExecutions.
MaxExecutions == 2
ProposalIds == 1..MaxProposals
\* Governance.VOTING_PERIOD (7 days), PROPOSAL_THRESHOLD (1000 tokens) and
\* QUORUM_THRESHOLD (10000 tokens), scaled like the time and the amounts.
VOTING_PERIOD == 1
PROPOSAL_THRESHOLD == 1
QUORUM_THRESHOLD == 3
\* Ownable.owner() of Governance: the account that deployed it.
GovernanceOwner == Relayer
ZeroAddress == "0x0"
\* An entry of the mapping proposals that was never written.
NoProposal ==
    [proposer |-> ZeroAddress, startTime |-> 0, endTime |-> 0, forVotes |-> 0,
     againstVotes |-> 0, executed |-> FALSE, canceled |-> FALSE]

\* block.timestamp of the block Governance is deployed in: positive on any
\* chain, so an entry of proposals that was never written has its endTime in
\* the past.
DeployTime == 1
\* What a call to Governance reads and writes; votingToken is the DUSD token.
GovernanceState ==
    [now |-> DeployTime + now, dusdBal |-> dusdBal, proposals |-> proposals, votes |-> votes,
     proposalCount |-> proposalCount]

\* Governance.proposeChange, msg.sender = sender
proposeChange(g, sender) ==
    IF ~(g.dusdBal[sender] >= PROPOSAL_THRESHOLD) THEN Revert(g, "Insufficient voting power")
    ELSE LET proposalId == g.proposalCount + 1
             g1 == [g EXCEPT !.proposalCount = proposalId]
         IN  Ok([g1 EXCEPT !.proposals[proposalId] =
                     [proposer |-> sender, startTime |-> g.now,
                      endTime |-> g.now + VOTING_PERIOD, forVotes |-> 0,
                      againstVotes |-> 0, executed |-> FALSE, canceled |-> FALSE]])

\* Governance.vote, msg.sender = sender
vote(g, sender, proposalId, support) ==
    LET proposal == g.proposals[proposalId] IN
    IF ~(g.now >= proposal.startTime) THEN Revert(g, "Voting not started")
    ELSE IF ~(g.now <= proposal.endTime) THEN Revert(g, "Voting ended")
    ELSE IF proposal.executed THEN Revert(g, "Proposal already executed")
    ELSE IF proposal.canceled THEN Revert(g, "Proposal canceled")
    ELSE IF sender \in g.votes[proposalId] THEN Revert(g, "Already voted")
    ELSE LET voterBalance == g.dusdBal[sender] IN
         IF ~(voterBalance > 0) THEN Revert(g, "No voting power")
         ELSE LET g1 == [g EXCEPT !.votes[proposalId] = @ \cup {sender}]
              IN  IF support
                  THEN Ok([g1 EXCEPT !.proposals[proposalId].forVotes = @ + voterBalance])
                  ELSE Ok([g1 EXCEPT !.proposals[proposalId].againstVotes =
                                         @ + voterBalance])

\* An executeProposal without the require on the executed flag.
executeProposalAgain(g, proposalId, success) ==
    LET proposal == g.proposals[proposalId] IN
    IF ~(g.now > proposal.endTime) THEN Revert(g, "Voting not ended")
    ELSE IF proposal.canceled THEN Revert(g, "Proposal canceled")
    ELSE IF ~(proposal.forVotes > proposal.againstVotes) THEN Revert(g, "Proposal not passed")
    ELSE IF ~(proposal.forVotes >= QUORUM_THRESHOLD) THEN Revert(g, "Quorum not reached")
    ELSE IF ~success THEN Revert(g, "Proposal execution failed")
    ELSE Ok([g EXCEPT !.proposals[proposalId].executed = TRUE])

\* Governance.executeProposal; `success` is what the low-level call of the
\* proposal's target returns.  The flag is set before the call, so a target
\* that calls back into vote, executeProposal or cancelProposal for this
\* proposal is refused by their requires on the flag.
executeProposal(g, proposalId, success) ==
    LET proposal == g.proposals[proposalId] IN
    IF ~(g.now > proposal.endTime) THEN Revert(g, "Voting not ended")
    ELSE IF proposal.executed THEN Revert(g, "Already executed")
    ELSE IF proposal.canceled THEN Revert(g, "Proposal canceled")
    ELSE IF ~(proposal.forVotes > proposal.againstVotes) THEN Revert(g, "Proposal not passed")
    ELSE IF ~(proposal.forVotes >= QUORUM_THRESHOLD) THEN Revert(g, "Quorum not reached")
    ELSE IF ~success THEN Revert(g, "Proposal execution failed")
    ELSE Ok([g EXCEPT !.proposals[proposalId].executed = TRUE])

\* Governance.cancelProposal, msg.sender = sender
cancelProposal(g, sender, proposalId) ==
    LET proposal == g.proposals[proposalId] IN
    IF ~(sender = proposal.proposer \/ sender = GovernanceOwner)
    THEN Revert(g, "Not authorized")
    ELSE IF proposal.executed THEN Revert(g, "Already executed")
    ELSE IF proposal.canceled THEN Revert(g, "Already canceled")
    ELSE Ok([g EXCEPT !.proposals[proposalId].canceled = TRUE])

(* ------------------- low-level calls made by the pool ------------------ *)
\* (bool success,) = rwaToken.call(...): success is false when the callee
\* reverts or has no such function, true when it returns, and also true when
\* the address holds no code (the EVM runs nothing and reports success).
LowLevel(s, r) == [success |-> r.res = "ok", st |-> IF r.res = "ok" THEN r.st ELSE s]

\* rwaToken.call(abi.encodeWithSignature("mintAsset(...)", ...))
callMintAsset(s, rwaToken, action) ==
    IF rwaToken = NoCodeTarget THEN [success |-> TRUE, st |-> s]
    ELSE IF rwaToken = RwaTarget
    THEN LowLevel(s, mintAsset(s, Pool, action.to, action.amount, action.ipfsCid,
                               action.name, action.valuation))
    ELSE [success |-> FALSE, st |-> s]

\* rwaToken.call(abi.encodeWithSignature("transfer(address,uint256)", ...))
callTransfer(s, rwaToken, action) ==
    IF rwaToken = NoCodeTarget THEN [success |-> TRUE, st |-> s]
    ELSE IF rwaToken = RwaTarget
    THEN LowLevel(s, rwaTransfer(s, Pool, action.to, action.amount))
    ELSE LowLevel(s, dusdTransfer(s, Pool, action.to, action.amount))

\* rwaToken.call(abi.encodeWithSignature("burnAsset(uint256,address,uint256)", 0, ...))
callBurnAsset(s, rwaToken, action) ==
    IF rwaToken = NoCodeTarget THEN [success |-> TRUE, st |-> s]
    ELSE IF rwaToken = RwaTarget
    THEN LowLevel(s, burnAsset(s, Pool, action.from, action.amount))
    ELSE [success |-> FALSE, st |-> s]

(* ------------------------- EIP-712 signatures ------------------------- *)
DepositType == "DepositAction"
WithdrawType == "WithdrawAction"
MintType == "MintRWAAction"
TransferType == "TransferRWAAction"
BurnType == "BurnRWAAction"

\* EIP712("LendingPool", "1"): the domain of this deployment.
PoolDomain ==
    [name |-> "LendingPool", version |-> "1", chainId |-> "block.chainid",
     verifyingContract |-> Pool]

\* A digest that leaves the type hash out of what it hashes.
hashUntyped(domain, typ, message) == [domain |-> domain, typ |-> "", msg |-> message]

\* TypedDataEncoder.hash(domain, types, message): the digest a wallet signs.
\* The hash is modelled by the tuple it is computed from: two digests are
\* equal exactly when domain, type and every field are.
hashTypedData(domain, typ, message) == [domain |-> domain, typ |-> typ, msg |-> message]

\* _hashTypedDataV4(keccak256(abi.encode(TYPEHASH, fields...))): the digest
\* of the action in the domain of this deployment.
Digest(typ, action) == hashTypedData(PoolDomain, typ, action)

\* signer.signTypedData(domain, types, message)
Sign(signer, typ, action) == [signer |-> signer, digest |-> Digest(typ, action)]

\* Domains a wallet can be asked to sign for besides the pool's: the same
\* contract on another chain, another contract on the same chain.
OtherDomains ==
    {[PoolDomain EXCEPT !.chainId = "another chainid"],
     [PoolDomain EXCEPT !.verifyingContract = "another pool"]}

\* signTypedMessage(signer, domain, types, message)
signTypedMessage(signer, domain, typ, message) ==
    [signer |-> signer, digest |-> hashTypedData(domain, typ, message)]

\* ECDSA.recover(digest, signature)
recover(digest, signature) ==
    IF signature.digest = digest THEN signature.signer ELSE Stranger

\* A pool that forgets the increment.
bumpNonceSkipped(s, sender) == s

\* nonces[msg.sender]++
bumpNonce(s, sender) == [s EXCEPT !.nonces[sender] = @ + 1]

\* A verifier without the nonce check.
verifyNoNonceCheck(s, sender, typ, action, signature) ==
    IF ~(s.now <= action.deadline) THEN "Signature expired"
    ELSE IF ~(recover(Digest(typ, action), signature) = sender) THEN "Invalid signature"
    ELSE "ok"

\* A verifier that compares the nonce before it looks at the deadline.
verifyNonceFirst(s, sender, typ, action, signature) ==
    IF ~(action.nonce = s.nonces[sender]) THEN "Invalid nonce"
    ELSE IF ~(s.now <= action.deadline) THEN "Signature expired"
    ELSE IF ~(recover(Digest(typ, action), signature) = sender) THEN "Invalid signature"
    ELSE "ok"

\* A verifier that accepts whoever signed.
verifyAnySigner(s, sender, typ, action, signature) ==
    IF ~(s.now <= action.deadline) THEN "Signature expired"
    ELSE IF ~(action.nonce = s.nonces[sender]) THEN "Invalid nonce"
    ELSE IF recover(Digest(typ, action), signature) = Stranger THEN "Invalid signature"
    ELSE "ok"

\* A verifier that rejects an envelope in the very second of its deadline.
verifyStrictDeadline(s, sender, typ, action, signature) ==
    IF ~(s.now < action.deadline) THEN "Signature expired"
    ELSE IF ~(action.nonce = s.nonces[sender]) THEN "Invalid nonce"
    ELSE IF ~(recover(Digest(typ, action), signature) = sender) THEN "Invalid signature"
    ELSE "ok"

\* The three require()s that open every delegated entry point, in source
\* order; "ok" when all pass.
verify(s, sender, typ, action, signature) ==
    IF ~(s.now <= action.deadline) THEN "Signature expired"
    ELSE IF ~(action.nonce = s.nonces[sender]) THEN "Invalid nonce"
    ELSE IF ~(recover(Digest(typ, action), signature) = sender) THEN "Invalid signature"
    ELSE "ok"

\* A delegated deposit that leaves the nonce as it was.
executeDepositKeepsNonce(s, sender, action, signature) ==
    LET v == verify(s, sender, DepositType, action, signature) IN
    IF v # "ok" THEN Revert(s, v)
    ELSE LET s1 == accrue(s)
             t == dusdTransferFrom(s1, sender, Pool, action.amount)
         IN  IF t.res # "ok" THEN Revert(s, t.res)
             ELSE LET scaledAmount == (action.amount * RAY) \div t.st.index
                      s2 == [t.st EXCEPT !.scaledDeposits[sender] = @ + scaledAmount]
                  IN  Ok([s2 EXCEPT !.deposits[sender] = @ + action.amount])

\* A delegated deposit that converts at the stored index, without accruing.
executeDepositNoAccrue(s, sender, action, signature) ==
    LET v == verify(s, sender, DepositType, action, signature) IN
    IF v # "ok" THEN Revert(s, v)
    ELSE LET s1 == bumpNonce(s, sender)
             t == dusdTransferFrom(s1, sender, Pool, action.amount)
         IN  IF t.res # "ok" THEN Revert(s, t.res)
             ELSE LET scaledAmount == (action.amount * RAY) \div t.st.index
                      s2 == [t.st EXCEPT !.scaledDeposits[sender] = @ + scaledAmount]
                  IN  Ok([s2 EXCEPT !.deposits[sender] = @ + action.amount])

\* LendingPool.executeDeposit, msg.sender = sender
executeDeposit(s, sender, action, signature) ==
    LET v == verify(s, sender, DepositType, action, signature) IN
    IF v # "ok" THEN Revert(s, v)
    ELSE LET s1 == accrue(bumpNonce(s, sender))
             t == dusdTransferFrom(s1, sender, Pool, action.amount)
         IN  IF t.res # "ok" THEN Revert(s, t.res)
             ELSE LET scaledAmount == (action.amount * RAY) \div t.st.index
                      s2 == [t.st EXCEPT !.scaledDeposits[sender] = @ + scaledAmount]
                  IN  Ok([s2 EXCEPT !.deposits[sender] = @ + action.amount])

\* LendingPool.executeWithdraw, msg.sender = sender
executeWithdraw(s, sender, action, signature) ==
    LET v == verify(s, sender, WithdrawType, action, signature) IN
    IF v # "ok" THEN Revert(s, v)
    ELSE LET s1 == accrue(bumpNonce(s, sender)) IN
         IF ~(s1.deposits[sender] >= action.amount) THEN Revert(s, "Insufficient balance")
         ELSE LET scaledAmount == (action.amount * RAY) \div s1.index IN
              IF s1.scaledDeposits[sender] < scaledAmount THEN Revert(s, "Panic(0x11)")
              ELSE LET s2 == [s1 EXCEPT !.scaledDeposits[sender] = @ - scaledAmount]
                       s3 == [s2 EXCEPT !.deposits[sender] = @ - action.amount]
                       t == dusdTransfer(s3, Pool, sender, action.amount)
                   IN  IF t.res # "ok" THEN Revert(s, t.res) ELSE Ok(t.st)

\* LendingPool.executeMintRWA, msg.sender = sender
executeMintRWA(s, sender, action, signature, rwaToken) ==
    LET v == verify(s, sender, MintType, action, signature) IN
    IF v # "ok" THEN Revert(s, v)
    ELSE LET c == callMintAsset(bumpNonce(s, sender), rwaToken, action)
         IN  IF ~c.success THEN Revert(s, "RWA mint failed") ELSE Ok(c.st)

\* LendingPool.executeTransferRWA, msg.sender = sender
executeTransferRWA(s, sender, action, signature, rwaToken) ==
    LET v == verify(s, sender, TransferType, action, signature) IN
    IF v # "ok" THEN Revert(s, v)
    ELSE LET c == callTransfer(bumpNonce(s, sender), rwaToken, action)
         IN  IF ~c.success THEN Revert(s, "RWA transfer failed") ELSE Ok(c.st)

\* LendingPool.executeBurnRWA, msg.sender = sender
executeBurnRWA(s, sender, action, signature, rwaToken) ==
    LET v == verify(s, sender, BurnType, action, signature) IN
    IF v # "ok" THEN Revert(s, v)
    ELSE LET c == callBurnAsset(bumpNonce(s, sender), rwaToken, action)
         IN  IF ~c.success THEN Revert(s, "RWA burn failed") ELSE Ok(c.st)

(* --------------------- relayer service (gateway) ---------------------- *)
\* A field of a JSON request body: absent, a string or a number.  A string is
\* given by what it spells: a decimal numeral (its value) or something that
\* is no numeral (Junk).
Absent == [t |-> "undefined", v |-> 0]
Str(v) == [t |-> "string", v |-> v]
Num(v) == [t |-> "number", v |-> v]
Junk == 0 - 1

\* !x
falsy(x) == x.t = "undefined" \/ (x.t = "number" /\ x.v = 0)
\* typeof x
typeof(x) == x.t
\* Whether the string spells a number, so that parseEther and BigInt return.
numeric(x) == x.t = "string" /\ x.v # Junk

\* Wei per ether (1e18 in ethers), scaled down.
Ether == 2
\* ethers.parseEther
parseEther(x) == x.v * Ether
\* parseInt / BigInt of a numeral
parseInt(x) == x.v
BigInt(x) == x.v

\* checkMultiSigRequirement: parseEther('100')
MultiSigEther == 100
checkMultiSigRequirement(amount) == amount >= parseEther(Str(MultiSigEther))

\* "max 1 hour": currentTime + 3600
MaxDeadlineWindow == 3600

\* KEY_ROTATION_INTERVAL, in milliseconds like keyRotationTimestamp.
KEY_ROTATION_INTERVAL == 86400000
shouldRotateKey(currentTime) ==
    currentTime * 1000 - keyRotationTimestamp > KEY_ROTATION_INTERVAL

\* rateLimit({ max }): requests the limiter lets through per IP in one window,
\* scaled down.  A window lasts 15 minutes, far longer than the deadlines
\* explored; its end is an event of its own.
RateLimitMax == 2
\* Windows of the limiter explored after the first.
MaxWindow == 1
\* req.ip of the clients.
ClientIP == "10.0.0.1"
OtherIP == "10.0.0.2"
IPs == {ClientIP, OtherIP}
\* MAX_LOG_ENTRIES, scaled down.
MAX_LOG_ENTRIES == 2

\* The account of the wallet the lendingPool contract object was built with:
\* it is msg.sender of every transaction the relayer sends.
poolSigner == Relayer
\* The account of the wallet POST /api/admin/rotate-key is given.
RotatedKey == "rotated"

\* A response field that is not there.
NoCode == ""
NoDetails == ""

\* An entry of transactionLog: the event's type and its error text.
Event(type, error) == [type |-> type, error |-> error]

\* logSecurityEvent
logSecurityEvent(log, event) ==
    LET pushed == Append(log, event)
    IN  IF Len(pushed) > MAX_LOG_ENTRIES THEN Tail(pushed) ELSE pushed

\* rotateRelayerKey
rotateRelayerKey(log, currentTime) ==
    IF shouldRotateKey(currentTime)
    THEN logSecurityEvent(log, Event("KEY_ROTATION_TRIGGERED", ""))
    ELSE log

\* error.message as the catch block sees it.  A revert found while the call is
\* simulated before it is sent carries the revert reason; a transaction that
\* reverts once mined is reported from its receipt, without the reason; a
\* string that is no numeral makes the conversion throw.
revertedInSimulation(reason) == reason
RevertedOnceMined == "transaction execution reverted"
NotANumeral == "invalid numeral"
\* error.message.includes(text), for the texts the handler looks for
includes(message, text) == message = text

\* A response: res.status(status).json({ error, details, code }); the log is
\* transactionLog as the handler leaves it, the action what it goes on to
\* submit (status 0: no response yet).
Response(log, status, error, details, code) ==
    [log |-> log, status |-> status, error |-> error, details |-> details,
     code |-> code, action |-> <<>>]

\* The catch block of POST /api/deposit of the basic relayer.
basicCaught(error) ==
    IF includes(error, "Invalid nonce")
    THEN Response(<<>>, 400, "Invalid nonce - possible replay attack", NoDetails, NoCode)
    ELSE IF includes(error, "Invalid signature")
    THEN Response(<<>>, 400, "Invalid signature", NoDetails, NoCode)
    ELSE IF includes(error, "Signature expired")
    THEN Response(<<>>, 400, "Signature has expired", NoDetails, NoCode)
    ELSE Response(<<>>, 500, "Transaction failed", error, NoCode)

\* The catch block of POST /api/rwa/mint, /api/rwa/transfer and /api/rwa/burn
\* of the basic relayer; `failed` is the route's text.
basicCaughtRWA(failed, error) == Response(<<>>, 500, failed, error, NoCode)

\* GET /api/nonce/:address of the basic relayer: lendingPool.nonces(address)
getNonce(s, address) == s.nonces[address]

\* The catch block of POST /api/deposit: the event logged and the response.
caught(log, error) ==
    LET log1 == logSecurityEvent(log, Event("TRANSACTION_FAILED", error)) IN
    IF includes(error, "Invalid nonce")
    THEN Response(log1, 400, "Invalid nonce - possible replay attack", NoDetails,
                  "INVALID_NONCE")
    ELSE IF includes(error, "Invalid signature")
    THEN Response(log1, 400, "Invalid signature", NoDetails, "INVALID_SIGNATURE")
    ELSE IF includes(error, "Signature expired")
    THEN Response(log1, 400, "Signature has expired", NoDetails, "SIGNATURE_EXPIRED")
    ELSE Response(log1, 500, "Transaction failed", error, "TRANSACTION_FAILED")

\* A request answered during validation: the event logged and the response.
Rejected(log, error, code, event) ==
    Response(logSecurityEvent(log, event), 400, error, NoDetails, code)

\* The action POST /api/deposit builds from a body that passed validation.
Submit(log, body) ==
    [Response(log, 0, "", NoDetails, NoCode) EXCEPT
        !.action = [amount |-> parseEther(body.amount), nonce |-> BigInt(body.nonce),
                    deadline |-> BigInt(body.deadline)]]

\* POST /api/deposit of the basic relayer from its first line to the first
\* await: the response of a request that ends there, or status 0 and the
\* action to submit.  It keeps no log and its responses carry no code.
basicPostDeposit(body, currentTime) ==
    IF falsy(body.amount) \/ falsy(body.nonce) \/ falsy(body.deadline)
       \/ falsy(body.signature)
    THEN Response(<<>>, 400, "Missing required fields", NoDetails, NoCode)
    ELSE IF typeof(body.amount) # "string" \/ typeof(body.nonce) # "string"
            \/ typeof(body.deadline) # "string" \/ typeof(body.signature) # "string"
    THEN Response(<<>>, 400, "Invalid input types", NoDetails, NoCode)
    ELSE IF ~numeric(body.amount) THEN basicCaught(NotANumeral)
    ELSE IF parseEther(body.amount) <= 0
    THEN Response(<<>>, 400, "Amount must be greater than 0", NoDetails, NoCode)
    ELSE IF numeric(body.deadline) /\ parseInt(body.deadline) <= currentTime
    THEN Response(<<>>, 400, "Signature has expired", NoDetails, NoCode)
    ELSE IF numeric(body.deadline)
            /\ parseInt(body.deadline) > currentTime + MaxDeadlineWindow
    THEN Response(<<>>, 400, "Deadline too far in future", NoDetails, NoCode)
    ELSE IF ~numeric(body.nonce) \/ ~numeric(body.deadline)
    THEN basicCaught(NotANumeral)
    ELSE Submit(<<>>, body)

\* POST /api/deposit from its first line to the first await: the response of a
\* request that ends there, or status 0 and the action to submit.
postDeposit(log, body, currentTime) ==
    IF falsy(body.amount) \/ falsy(body.nonce) \/ falsy(body.deadline)
       \/ falsy(body.signature)
    THEN Rejected(log, "Missing required fields", "MISSING_FIELDS",
                  Event("VALIDATION_ERROR", "Missing required fields"))
    ELSE IF typeof(body.amount) # "string" \/ typeof(body.nonce) # "string"
            \/ typeof(body.deadline) # "string" \/ typeof(body.signature) # "string"
    THEN Rejected(log, "Invalid input types", "INVALID_TYPES",
                  Event("VALIDATION_ERROR", "Invalid input types"))
    ELSE IF ~numeric(body.amount) THEN caught(log, NotANumeral)
    ELSE IF parseEther(body.amount) <= 0
    THEN Rejected(log, "Amount must be greater than 0", "INVALID_AMOUNT",
                  Event("VALIDATION_ERROR", "Invalid amount"))
    ELSE IF checkMultiSigRequirement(parseEther(body.amount))
    THEN Rejected(log, "Large transaction requires multi-signature approval",
                  "MULTI_SIG_REQUIRED", Event("MULTI_SIG_REQUIRED", ""))
    ELSE IF numeric(body.deadline) /\ parseInt(body.deadline) <= currentTime
    THEN Rejected(log, "Signature has expired", "SIGNATURE_EXPIRED",
                  Event("VALIDATION_ERROR", "Signature expired"))
    ELSE IF numeric(body.deadline)
            /\ parseInt(body.deadline) > currentTime + MaxDeadlineWindow
    THEN Rejected(log, "Deadline too far in future", "DEADLINE_TOO_FAR",
                  Event("VALIDATION_ERROR", "Deadline too far in future"))
    ELSE LET log1 == rotateRelayerKey(log, currentTime) IN
         IF ~numeric(body.nonce) \/ ~numeric(body.deadline)
         THEN caught(log1, NotANumeral)
         ELSE Submit(logSecurityEvent(log1, Event("TRANSACTION_START", "")), body)

(* --------------------------- inputs explored -------------------------- *)
\* Recipients and sources named inside RWA actions.
Parties == {Alice, Pool}
\* Amounts carried by RWA actions.
RwaAmounts == {1}

\* The fields every action carries and the verifier reads.
Stamps == [nonce : Nonces, deadline : Deadlines]

\* The action-specific payloads.
DepositPayloads == [amount : Amounts]
WithdrawPayloads == [amount : Amounts]
\* Deposits and withdrawals of one unit, where the amount is beside the point.
UnitPayloads == [amount : {1}]
TransferPayloads == [to : Parties, amount : RwaAmounts]
BurnPayloads == [from : Parties, amount : RwaAmounts]
MintPayloads ==
    [to : Parties, amount : RwaAmounts, ipfsCid : {"QmCid"}, name : {"asset"},
     description : {""}, valuation : {0, MAX_VALUATION}, merkleRoot : {"0x00"}]

\* struct DepositAction / WithdrawAction / MintRWAAction / TransferRWAAction /
\* BurnRWAAction: a payload together with nonce and deadline.
DepositAction(p, n) == [amount |-> p.amount, nonce |-> n.nonce, deadline |-> n.deadline]
WithdrawAction(p, n) == [amount |-> p.amount, nonce |-> n.nonce, deadline |-> n.deadline]
TransferRWAAction(p, n) ==
    [to |-> p.to, amount |-> p.amount, nonce |-> n.nonce, deadline |-> n.deadline]
BurnRWAAction(p, n) ==
    [from |-> p.from, amount |-> p.amount, nonce |-> n.nonce, deadline |-> n.deadline]
MintRWAAction(p, n) ==
    [to |-> p.to, amount |-> p.amount, ipfsCid |-> p.ipfsCid, name |-> p.name,
     description |-> p.description, valuation |-> p.valuation,
     merkleRoot |-> p.merkleRoot, nonce |-> n.nonce, deadline |-> n.deadline]

DepositActions == {DepositAction(p, n) : p \in DepositPayloads, n \in Stamps}
WithdrawActions == {WithdrawAction(p, n) : p \in WithdrawPayloads, n \in Stamps}
TransferActions == {TransferRWAAction(p, n) : p \in TransferPayloads, n \in Stamps}
BurnActions == {BurnRWAAction(p, n) : p \in BurnPayloads, n \in Stamps}
MintActions == {MintRWAAction(p, n) : p \in MintPayloads, n \in Stamps}

\* Deposit envelopes as a client prepares them for the relayer: the amount in
\* ether, signed in wei.
GatewayDeadlines == Deadlines \cup {MaxTime + MaxDeadlineWindow + 1}
ClientEnvelopes ==
    [amount : {0, 1, MultiSigEther}, nonce : 0..1, deadline : GatewayDeadlines,
     signer : Actors]
\* The body of POST /api/deposit for an envelope, every field a string.
encode(e) ==
    [amount |-> Str(e.amount), nonce |-> Str(e.nonce), deadline |-> Str(e.deadline),
     signature |-> Str(Sign(e.signer, DepositType,
                            [amount |-> parseEther(Str(e.amount)), nonce |-> e.nonce,
                             deadline |-> e.deadline]))]
\* Bodies with a field missing, of the wrong type or not a numeral.
Malformed ==
    LET b == encode([amount |-> 1, nonce |-> 0, deadline |-> MaxTime, signer |-> Alice])
    IN  {[b EXCEPT !.amount = Absent], [b EXCEPT !.amount = Num(1)],
         [b EXCEPT !.amount = Str(Junk)], [b EXCEPT !.nonce = Num(0)],
         [b EXCEPT !.nonce = Str(Junk)], [b EXCEPT !.deadline = Str(Junk)],
         [b EXCEPT !.signature = Absent]}
Bodies == {encode(e) : e \in ClientEnvelopes} \cup Malformed

None == "none"

\* The outcomes of verify over the envelopes accounts can submit at an entry
\* point: every sender, every nonce and deadline, signed by every account.
\* verify reads the action's nonce and deadline and compares the digest the
\* signature was made over with the digest of the action submitted; the
\* envelopes explored carry a signature over the action they submit, so the
\* payload does not influence the outcome and `action0` supplies it.
VerifyOutcomes(s, typ, action0) ==
    {verify(s, sender, typ, [action0 EXCEPT !.nonce = n.nonce, !.deadline = n.deadline],
            Sign(signer, typ,
                 [action0 EXCEPT !.nonce = n.nonce, !.deadline = n.deadline])) :
        sender \in Actors, n \in Stamps, signer \in Actors}

\* Whether verify accepts, in the current state, an envelope with the nonce and
\* deadline of `probe`, signed by `signer` and submitted by `sender`.
Accepts(sender, signer, typ, probe) ==
    verify(State, sender, typ, probe, Sign(signer, typ, probe)) = "ok"

(* ----------------------------- transitions ---------------------------- *)
\* Write back the state a transaction returned.
CommitLedger(s) ==
    /\ ratePerSecond' = s.ratePerSecond
    /\ lastUpdate' = s.lastUpdate
    /\ index' = s.index
    /\ deposits' = s.deposits
    /\ scaledDeposits' = s.scaledDeposits
    /\ nonces' = s.nonces
    /\ dusdBal' = s.dusdBal
    /\ dusdAllowance' = s.dusdAllowance
    /\ rwaBal' = s.rwaBal
    /\ rwaNextAssetId' = s.rwaNextAssetId
    /\ UNCHANGED <<now, peripheryVars>>

\* A transaction sent to the pool directly: the relayer is not involved.
Commit(s) == CommitLedger(s) /\ UNCHANGED gatewayVars

Call(fn, r) == [fn |-> fn, res |-> r.res]

Envelope(typ, sender, action, signature, rwaToken) ==
    [typ |-> typ, sender |-> sender, action |-> action, signature |-> signature,
     rwaToken |-> rwaToken]

\* A delegated transaction: commit its outcome and keep the history.
Delegated(fn, typ, sender, action, signature, rwaToken, watch, r) ==
    /\ r.res = "ok" => nonces[sender] < MaxNonce
    /\ Commit(r.st)
    /\ last' = Call(fn, r)
    /\ nonceLog' = IF r.res = "ok"
                   THEN [nonceLog EXCEPT ![sender] = Append(@, action.nonce)]
                   ELSE nonceLog
    /\ watched' = IF r.res = "ok" /\ watch /\ watched = {}
                  THEN {Envelope(typ, sender, action, signature, rwaToken)}
                  ELSE watched

\* The pool as constructed, with dUSD minted to the accounts in `funded` and
\* approved by them for the pool, and nothing called yet.
PoolDeployedAt(funded, mint, rates) ==
    /\ now = 0
    /\ ratePerSecond \in rates
    /\ lastUpdate = 0
    /\ index = RAY
    /\ deposits = [a \in Actors |-> 0]
    /\ scaledDeposits = [a \in Actors |-> 0]
    /\ nonces = [a \in Actors |-> 0]
    /\ dusdBal = [a \in Addr |-> IF a \in funded THEN mint ELSE 0]
    /\ dusdAllowance = [a \in Actors |-> IF a \in funded THEN mint ELSE 0]
    /\ last = [fn |-> "constructor", res |-> "ok"]
    /\ nonceLog = [a \in Actors |-> <<>>]
    /\ watched = {}

\* The asset token with the pool holding its minter and burner roles, every
\* address onboarded, nothing minted and nothing approved.
AssetTokenDeployed ==
    /\ rwaBal = [a \in Addr |-> 0]
    /\ rwaNextAssetId = 1
    /\ rwaRoles = [r \in {MINTER_ROLE, BURNER_ROLE, COMPLIANCE_ROLE} |->
                      IF r = COMPLIANCE_ROLE THEN {} ELSE {Pool}]
    /\ rwaWhitelist = Addr
    /\ rwaKycVerified = Addr
    /\ rwaKycExpiry = [a \in Addr |-> KYC_VALIDITY_PERIOD]
    /\ rwaFrozen = {}
    /\ rwaAllowance = [a \in Actors |-> [b \in Addr |-> 0]]

\* The relayer as started: no request counted, logged or pending.
RelayerStarted ==
    /\ hits = [ip \in IPs |-> 0]
    /\ window = 0
    /\ currentSigner = poolSigner
    /\ keyRotationTimestamp = 0
    /\ transactionLog = <<>>
    /\ requests = {}
    /\ replies = <<>>

\* The vault and its oracle as constructed: no position, the default price,
\* and dUSD approved for the vault by the accounts in `approved`.
VaultDeployed(approved, amount) ==
    /\ positions = [a \in Actors |-> [collateral |-> 0, debt |-> 0]]
    /\ price = PriceUnit
    /\ vaultAllowance = [a \in Actors |-> IF a \in approved THEN amount ELSE 0]

\* Governance as constructed: no proposal, no vote.
GovernanceDeployed ==
    /\ proposals = [id \in ProposalIds |-> NoProposal]
    /\ votes = [id \in ProposalIds |-> {}]
    /\ proposalCount = 0
    /\ executions = [id \in ProposalIds |-> 0]
    /\ ballots = [id \in ProposalIds |-> [a \in Actors |-> 0]]

\* The deployment the pool and the relayer are explored from.
DeployedAt(funded, mint, rates) ==
    /\ PoolDeployedAt(funded, mint, rates)
    /\ AssetTokenDeployed
    /\ RelayerStarted
    /\ VaultDeployed({}, 0)
    /\ GovernanceDeployed

Deployed(funded, mint) == DeployedAt(funded, mint, Rates)

Init == Deployed({Alice}, InitialMint)

\* A block with a later timestamp.
Tick ==
    /\ now < MaxTime
    /\ now' = now + 1
    /\ last' = [fn |-> "tick", res |-> "ok"]
    /\ UNCHANGED <<ledgerVars, peripheryVars, historyVars, gatewayVars>>

CallAccrue ==
    /\ Commit(accrue(State))
    /\ last' = [fn |-> "accrue", res |-> "ok"]
    /\ UNCHANGED historyVars

CallDeposit ==
    \E sender \in Actors, amount \in Amounts :
        LET r == deposit(State, sender, amount) IN
        /\ Commit(r.st)
        /\ last' = Call("deposit", r)
        /\ UNCHANGED historyVars

CallWithdraw ==
    \E sender \in Actors, amount \in Amounts :
        LET r == withdraw(State, sender, amount) IN
        /\ Commit(r.st)
        /\ last' = Call("withdraw", r)
        /\ UNCHANGED historyVars

\* A transaction that reverted: the chain state is as it was; the entry point
\* and the reason are what the sender observes.
Reverted(fn, why) ==
    /\ last' = [fn |-> fn, res |-> why]
    /\ UNCHANGED <<now, ledgerVars, peripheryVars, historyVars, gatewayVars>>

\* Each delegated entry point, called by any account with an envelope signed
\* by any account: an envelope verify rejects reverts with verify's reason; an
\* envelope it accepts runs the rest of the function, with every payload
\* (verify reads the nonce, the deadline and the signature; the payload reaches
\* it only through the digest, which the signature covers).
CallExecuteDeposit(payloads, watches) ==
    \/ \E why \in VerifyOutcomes(State, DepositType,
                                 DepositAction([amount |-> 0], [nonce |-> 0, deadline |-> 0]))
                  \ {"ok"} :
           Reverted("executeDeposit", why)
    \/ \E sender \in Actors, signer \in Actors, n \in Stamps :
           /\ Accepts(sender, signer, DepositType, DepositAction([amount |-> 0], n))
           /\ \E p \in payloads, watch \in watches :
                 LET action == DepositAction(p, n)
                     signature == Sign(signer, DepositType, action)
                 IN  Delegated("executeDeposit", DepositType, sender, action, signature, None, watch,
                               executeDeposit(State, sender, action, signature))

CallExecuteWithdraw(payloads, watches) ==
    \/ \E why \in VerifyOutcomes(State, WithdrawType,
                                 WithdrawAction([amount |-> 0], [nonce |-> 0, deadline |-> 0]))
                  \ {"ok"} :
           Reverted("executeWithdraw", why)
    \/ \E sender \in Actors, signer \in Actors, n \in Stamps :
           /\ Accepts(sender, signer, WithdrawType, WithdrawAction([amount |-> 0], n))
           /\ \E p \in payloads, watch \in watches :
                 LET action == WithdrawAction(p, n)
                     signature == Sign(signer, WithdrawType, action)
                 IN  Delegated("executeWithdraw", WithdrawType, sender, action, signature, None, watch,
                               executeWithdraw(State, sender, action, signature))

CallExecuteMintRWA(payloads, targets, watches) ==
    \/ \E why \in VerifyOutcomes(State, MintType,
                                 MintRWAAction(CHOOSE q \in MintPayloads : TRUE,
                                               [nonce |-> 0, deadline |-> 0]))
                  \ {"ok"} :
           Reverted("executeMintRWA", why)
    \/ \E sender \in Actors, signer \in Actors, n \in Stamps :
           /\ Accepts(sender, signer, MintType, MintRWAAction(CHOOSE q \in MintPayloads : TRUE, n))
           /\ \E p \in payloads, rwaToken \in targets, watch \in watches :
                 LET action == MintRWAAction(p, n)
                     signature == Sign(signer, MintType, action)
                 IN  Delegated("executeMintRWA", MintType, sender, action, signature, rwaToken,
                               watch,
                               executeMintRWA(State, sender, action, signature, rwaToken))

CallExecuteTransferRWA(payloads, targets, watches) ==
    \/ \E why \in VerifyOutcomes(State, TransferType,
                                 TransferRWAAction(CHOOSE q \in TransferPayloads : TRUE,
                                                   [nonce |-> 0, deadline |-> 0]))
                  \ {"ok"} :
           Reverted("executeTransferRWA", why)
    \/ \E sender \in Actors, signer \in Actors, n \in Stamps :
           /\ Accepts(sender, signer, TransferType, TransferRWAAction(CHOOSE q \in TransferPayloads : TRUE, n))
           /\ \E p \in payloads, rwaToken \in targets, watch \in watches :
                 LET action == TransferRWAAction(p, n)
                     signature == Sign(signer, TransferType, action)
                 IN  Delegated("executeTransferRWA", TransferType, sender, action, signature, rwaToken,
                               watch,
                               executeTransferRWA(State, sender, action, signature, rwaToken))

CallExecuteBurnRWA(payloads, targets, watches) ==
    \/ \E why \in VerifyOutcomes(State, BurnType,
                                 BurnRWAAction(CHOOSE q \in BurnPayloads : TRUE,
                                               [nonce |-> 0, deadline |-> 0]))
                  \ {"ok"} :
           Reverted("executeBurnRWA", why)
    \/ \E sender \in Actors, signer \in Actors, n \in Stamps :
           /\ Accepts(sender, signer, BurnType, BurnRWAAction(CHOOSE q \in BurnPayloads : TRUE, n))
           /\ \E p \in payloads, rwaToken \in targets, watch \in watches :
                 LET action == BurnRWAAction(p, n)
                     signature == Sign(signer, BurnType, action)
                 IN  Delegated("executeBurnRWA", BurnType, sender, action, signature, rwaToken,
                               watch,
                               executeBurnRWA(State, sender, action, signature, rwaToken))

\* The entry point an envelope was made for, called with it by `sender`.
Run(s, sender, e) ==
    CASE e.typ = DepositType -> executeDeposit(s, sender, e.action, e.signature)
      [] e.typ = WithdrawType -> executeWithdraw(s, sender, e.action, e.signature)
      [] e.typ = MintType -> executeMintRWA(s, sender, e.action, e.signature, e.rwaToken)
      [] e.typ = TransferType ->
             executeTransferRWA(s, sender, e.action, e.signature, e.rwaToken)
      [] e.typ = BurnType -> executeBurnRWA(s, sender, e.action, e.signature, e.rwaToken)

\* One statement of an entry point as it runs: what it is, whether it passes
\* (a require that fails, a call that reverts: FALSE), the state it leaves.
Stmt(op, ok, st) == [op |-> op, ok |-> ok, st |-> st]

\* Entry points that would increment the nonce on entry, ahead of the checks.
OpeningNonceFirst(s, sender, e) ==
    LET s1 == bumpNonce(s, sender) IN
    <<Stmt("nonces++", TRUE, s1),
      Stmt("require deadline", s.now <= e.action.deadline, s1),
      Stmt("require nonce", e.action.nonce = s.nonces[sender], s1),
      Stmt("require signer",
           recover(Digest(e.typ, e.action), e.signature) = sender, s1)>>

\* The statements every delegated entry point opens with, in source order.
Opening(s, sender, e) ==
    <<Stmt("require deadline", s.now <= e.action.deadline, s),
      Stmt("require nonce", e.action.nonce = s.nonces[sender], s),
      Stmt("require signer", recover(Digest(e.typ, e.action), e.signature) = sender, s),
      Stmt("nonces++", TRUE, bumpNonce(s, sender))>>

\* The entry point an envelope was made for, called with it by `sender`,
\* statement by statement in source order, up to and including the first
\* statement that fails.
Statements(s, sender, e) ==
    LET a == e.action
        open == Opening(s, sender, e)
        s1 == open[Len(open)].st
        body ==
            CASE e.typ = DepositType ->
                     LET s2 == accrue(s1)
                         t == dusdTransferFrom(s2, sender, Pool, a.amount)
                         s3 == [t.st EXCEPT !.scaledDeposits[sender] =
                                                @ + (a.amount * RAY) \div t.st.index]
                     IN  <<Stmt("accrue", TRUE, s2),
                           Stmt("safeTransferFrom", t.res = "ok", t.st),
                           Stmt("scaledDeposits +=", TRUE, s3),
                           Stmt("deposits +=", TRUE,
                                [s3 EXCEPT !.deposits[sender] = @ + a.amount])>>
              [] e.typ = WithdrawType ->
                     LET s2 == accrue(s1)
                         scaledAmount == (a.amount * RAY) \div s2.index
                         s3 == [s2 EXCEPT !.scaledDeposits[sender] = @ - scaledAmount]
                         s4 == [s3 EXCEPT !.deposits[sender] = @ - a.amount]
                         t == dusdTransfer(s4, Pool, sender, a.amount)
                     IN  <<Stmt("accrue", TRUE, s2),
                           Stmt("require deposits", s2.deposits[sender] >= a.amount, s2),
                           Stmt("scaledDeposits -=",
                                s2.scaledDeposits[sender] >= scaledAmount, s3),
                           Stmt("deposits -=", TRUE, s4),
                           Stmt("safeTransfer", t.res = "ok", t.st)>>
              [] e.typ = MintType ->
                     LET c == callMintAsset(s1, e.rwaToken, a)
                     IN  <<Stmt("rwaToken.call", TRUE, c.st),
                           Stmt("require success", c.success, c.st)>>
              [] e.typ = TransferType ->
                     LET c == callTransfer(s1, e.rwaToken, a)
                     IN  <<Stmt("rwaToken.call", TRUE, c.st),
                           Stmt("require success", c.success, c.st)>>
              [] e.typ = BurnType ->
                     LET c == callBurnAsset(s1, e.rwaToken, a)
                     IN  <<Stmt("rwaToken.call", TRUE, c.st),
                           Stmt("require success", c.success, c.st)>>
        all == open \o body
        failing == {i \in 1..Len(all) : ~all[i].ok}
    IN  IF failing = {} THEN all
        ELSE SubSeq(all, 1, CHOOSE i \in failing : \A j \in failing : i <= j)

\* The envelope under observation is submitted again, unchanged: by the account
\* that submitted it ("resubmit") or by the other one ("resubmitOther").
Resubmit ==
    \E e \in watched, sender \in Actors :
        LET r == Run(State, sender, e) IN
        /\ r.res = "ok" => nonces[sender] < MaxNonce
        /\ Commit(r.st)
        /\ last' = Call(IF sender = e.sender THEN "resubmit" ELSE "resubmitOther", r)
        /\ nonceLog' = IF r.res = "ok"
                       THEN [nonceLog EXCEPT ![sender] = Append(@, e.action.nonce)]
                       ELSE nonceLog
        /\ UNCHANGED watched

(* --------------------------- relayer requests ------------------------- *)
GatewayReply(code) == [fn |-> "POST /api/deposit", res |-> code]

\* The response to a submitted request, with what the verifier answered: the
\* request, the account the transaction was sent from, and the response.
Reply(r, sender, h, reason) ==
    [id |-> r.id, key |-> r.key, sender |-> sender, action |-> r.action,
     signature |-> r.signature, status |-> h.status, code |-> h.code,
     details |-> h.details, reason |-> reason, at |-> now]

\* A limiter that refuses the request that reaches the maximum.
LimitedAtMax(ip) == hits[ip] + 1 >= RateLimitMax

\* app.use('/api/', limiter): the request is counted for its IP, and refused
\* when the count exceeds max.
Limited(ip) == hits[ip] + 1 > RateLimitMax

\* The limiter's window of an IP ends: the count of that IP starts again.
LimiterWindowEnds ==
    \E ip \in IPs :
        /\ window < MaxWindow
        /\ hits[ip] > 0
        /\ window' = window + 1
        /\ hits' = [hits EXCEPT ![ip] = 0]
        /\ UNCHANGED <<now, ledgerVars, peripheryVars, last, historyVars, currentSigner,
                       keyRotationTimestamp, transactionLog, requests, replies>>

\* A request arrives at POST /api/deposit: the rate limiter, the monitoring
\* middleware and the handler up to its first await.
PostDeposit(ips, bodies) ==
    \E ip \in ips, body \in bodies :
        /\ hits[ip] <= RateLimitMax
        /\ hits' = [hits EXCEPT ![ip] = @ + 1]
        /\ IF Limited(ip)
           THEN /\ last' = GatewayReply("RATE_LIMITED")
                /\ UNCHANGED <<transactionLog, requests>>
           ELSE LET h == postDeposit(logSecurityEvent(transactionLog,
                                                      Event("API_ACCESS", "")),
                                     body, now)
                IN  /\ transactionLog' = h.log
                    /\ IF h.status = 0
                       THEN /\ requests' = requests \cup
                                   {[id |-> <<ip, window, hits[ip] + 1>>, key |-> currentSigner,
                                     action |-> h.action,
                                     signature |-> body.signature.v, stage |-> "sending"]}
                            /\ last' = GatewayReply("pending")
                       ELSE /\ requests' = requests
                            /\ last' = GatewayReply(h.code)
        /\ UNCHANGED <<now, ledgerVars, peripheryVars, historyVars, window, currentSigner,
                       keyRotationTimestamp, replies>>

\* await lendingPool.executeDeposit(action, signature): the call is simulated
\* from the account the contract object is bound to; a revert is thrown to the
\* catch block, otherwise the transaction is sent.
SendDeposit ==
    \E r \in requests :
        /\ r.stage = "sending"
        /\ LET sim == executeDeposit(State, poolSigner, r.action, r.signature) IN
           IF sim.res = "ok"
           THEN /\ requests' = (requests \ {r}) \cup {[r EXCEPT !.stage = "mining"]}
                /\ last' = GatewayReply("sent")
                /\ UNCHANGED <<transactionLog, replies>>
           ELSE LET c == caught(transactionLog, revertedInSimulation(sim.res)) IN
                /\ requests' = requests \ {r}
                /\ transactionLog' = c.log
                /\ replies' = Append(replies, Reply(r, poolSigner, c, sim.res))
                /\ last' = GatewayReply(c.code)
        /\ UNCHANGED <<now, ledgerVars, peripheryVars, historyVars, hits, window, currentSigner,
                       keyRotationTimestamp>>

\* await tx.wait(): the transaction is mined, with the account the contract
\* object is bound to as msg.sender, and the handler runs to its end.
MineDeposit ==
    \E r \in requests :
        /\ r.stage = "mining"
        /\ LET tx == executeDeposit(State, poolSigner, r.action, r.signature) IN
           /\ tx.res = "ok" => nonces[poolSigner] < MaxNonce
           /\ CommitLedger(tx.st)
           /\ nonceLog' = IF tx.res = "ok"
                          THEN [nonceLog EXCEPT ![poolSigner] = Append(@, r.action.nonce)]
                          ELSE nonceLog
           /\ IF tx.res = "ok"
              THEN LET log1 == logSecurityEvent(transactionLog,
                                                Event("TRANSACTION_SUCCESS", ""))
                   IN  /\ transactionLog' = log1
                       /\ replies' = Append(replies,
                              Reply(r, poolSigner, Response(log1, 200, "", NoDetails, NoCode),
                                    tx.res))
                       /\ last' = GatewayReply("success")
              ELSE LET c == caught(transactionLog, RevertedOnceMined) IN
                   /\ transactionLog' = c.log
                   /\ replies' = Append(replies, Reply(r, poolSigner, c, tx.res))
                   /\ last' = GatewayReply(c.code)
        /\ requests' = requests \ {r}
        /\ UNCHANGED <<watched, hits, window, currentSigner, keyRotationTimestamp>>

\* The transaction of a request is dropped by the network before it is mined
\* (evicted from the pool of pending transactions): tx.wait(), called without
\* a timeout, does not return and nothing else resumes the handler.
DropTransaction ==
    \E r \in requests :
        /\ r.stage = "mining"
        /\ requests' = (requests \ {r}) \cup {[r EXCEPT !.stage = "dropped"]}
        /\ last' = [fn |-> "network", res |-> "dropped"]
        /\ UNCHANGED <<now, ledgerVars, peripheryVars, historyVars, hits, window, currentSigner,
                       keyRotationTimestamp, transactionLog, replies>>

\* Values of newPrivateKey in the body of POST /api/admin/rotate-key: none,
\* a string that is no key, the key of the account RotatedKey.
NoKey == "none"
BadKey == "not a key"
NewKeys == {NoKey, BadKey, RotatedKey}

\* POST /api/admin/rotate-key: the rate limiter, the monitoring middleware and
\* the handler.  It assigns signer (currentSigner) and keyRotationTimestamp;
\* lendingPool, a const built before, is not among the things it assigns.
RotateKey(ips) ==
    \E ip \in ips, newPrivateKey \in NewKeys :
        /\ hits[ip] <= RateLimitMax
        /\ hits' = [hits EXCEPT ![ip] = @ + 1]
        /\ IF Limited(ip)
           THEN /\ last' = [fn |-> "POST /api/admin/rotate-key", res |-> "RATE_LIMITED"]
                /\ UNCHANGED <<transactionLog, currentSigner, keyRotationTimestamp>>
           ELSE LET log1 == logSecurityEvent(transactionLog, Event("API_ACCESS", "")) IN
                IF newPrivateKey = NoKey
                THEN /\ transactionLog' = log1
                     /\ last' = [fn |-> "POST /api/admin/rotate-key", res |-> "MISSING_KEY"]
                     /\ UNCHANGED <<currentSigner, keyRotationTimestamp>>
                ELSE IF newPrivateKey = BadKey
                THEN /\ transactionLog' =
                          logSecurityEvent(log1, Event("KEY_ROTATION_FAILED", BadKey))
                     /\ last' = [fn |-> "POST /api/admin/rotate-key", res |-> "INVALID_KEY"]
                     /\ UNCHANGED <<currentSigner, keyRotationTimestamp>>
                ELSE /\ currentSigner' = newPrivateKey
                     /\ keyRotationTimestamp' = now * 1000
                     /\ transactionLog' = logSecurityEvent(log1, Event("KEY_ROTATED", ""))
                     /\ last' = [fn |-> "POST /api/admin/rotate-key", res |-> "success"]
        /\ UNCHANGED <<now, ledgerVars, peripheryVars, historyVars, window, requests, replies>>

(* ------------------------- calls to the vault ------------------------- *)
\* Write back the state a call to the vault returned.
CommitVault(v) ==
    /\ positions' = v.positions
    /\ price' = v.price
    /\ rwaBal' = v.rwaBal
    /\ rwaAllowance' = v.rwaAllowance
    /\ dusdBal' = v.dusdBal
    /\ vaultAllowance' = v.vaultAllowance
    /\ UNCHANGED <<now, ratePerSecond, lastUpdate, index, deposits, scaledDeposits,
                   nonces, dusdAllowance, rwaNextAssetId, rwaConfigVars, governanceVars,
                   historyVars, gatewayVars>>

CallVaultDeposit ==
    \E sender \in Actors, amount \in VaultAmounts :
        LET r == vaultDeposit(VaultState, sender, amount) IN
        /\ CommitVault(r.st)
        /\ last' = Call("vault.deposit", r)

CallVaultWithdraw ==
    \E sender \in Actors, amount \in VaultAmounts :
        LET r == vaultWithdraw(VaultState, sender, amount) IN
        /\ CommitVault(r.st)
        /\ last' = Call("vault.withdraw", r)

CallBorrow ==
    \E sender \in Actors, amount \in VaultAmounts :
        LET r == borrow(VaultState, sender, amount) IN
        /\ r.res = "ok" => positions[sender].debt + amount <= MaxDebt
        /\ CommitVault(r.st)
        /\ last' = Call("vault.borrow", r)

CallRepay ==
    \E sender \in Actors, amount \in VaultAmounts :
        LET r == repay(VaultState, sender, amount) IN
        /\ CommitVault(r.st)
        /\ last' = Call("vault.repay", r)

\* The vault as its test sets it up: the oracle at its default price, RWA
\* minted to each account and approved for the vault, and dUSD approved for
\* the vault by each account.
VaultInit ==
    /\ PoolDeployedAt({}, 0, Rates)
    /\ RelayerStarted
    /\ GovernanceDeployed
    /\ VaultDeployed(Actors, MaxDebt)
    /\ rwaBal = [a \in Addr |-> IF a \in Actors THEN VaultMint ELSE 0]
    /\ rwaAllowance = [a \in Actors |-> [b \in Addr |-> IF b = Vault THEN VaultMint ELSE 0]]
    /\ rwaNextAssetId = 1
    /\ rwaRoles = [r \in {MINTER_ROLE, BURNER_ROLE, COMPLIANCE_ROLE} |-> {}]
    /\ rwaWhitelist = {} /\ rwaKycVerified = {} /\ rwaFrozen = {}
    /\ rwaKycExpiry = [a \in Addr |-> 0]

NextVault ==
    \/ CallVaultDeposit
    \/ CallBorrow
    \/ CallRepay
    \/ CallVaultWithdraw

VaultSpec == VaultInit /\ [][NextVault]_vars

(* ------------------------ calls to the asset token --------------------- *)
\* Write back the state a call to the asset token returned.
CommitToken(s) ==
    /\ rwaBal' = s.rwaBal
    /\ rwaAllowance' = s.rwaAllowance
    /\ UNCHANGED <<now, ratePerSecond, lastUpdate, index, deposits, scaledDeposits,
                   nonces, dusdBal, dusdAllowance, rwaNextAssetId, rwaConfigVars,
                   vaultVars, governanceVars, historyVars, gatewayVars>>

CallRwaTransfer ==
    \E sender \in Actors, to \in Actors, amount \in Amounts :
        LET r == rwaTransfer(State, sender, to, amount) IN
        /\ CommitToken(r.st)
        /\ last' = Call("rwa.transfer", r)

CallRwaTransferFrom ==
    \E sender \in Actors, from \in Actors, to \in Actors, amount \in Amounts :
        LET r == rwaTransferFrom(State, sender, from, to, amount) IN
        /\ CommitToken(r.st)
        /\ last' = Call("rwa.transferFrom", r)

\* The asset token after its compliance officers have set it up in any way:
\* each account frozen or not, whitelisted or not, holding the compliance
\* role or not, KYC-verified or not, with a verification that lapses during
\* the exploration or long after it; each account holds one token and has
\* approved one token for the other account.
TokenInit ==
    /\ PoolDeployedAt({}, 0, Rates)
    /\ RelayerStarted
    /\ GovernanceDeployed
    /\ VaultDeployed({}, 0)
    /\ rwaBal = [a \in Addr |-> IF a \in Actors THEN 1 ELSE 0]
    /\ rwaAllowance = [a \in Actors |-> [b \in Addr |-> IF b \in Actors \ {a} THEN 1 ELSE 0]]
    /\ rwaNextAssetId = 1
    /\ \E officers \in SUBSET Actors :
           rwaRoles = [r \in {MINTER_ROLE, BURNER_ROLE, COMPLIANCE_ROLE} |->
                          IF r = COMPLIANCE_ROLE THEN officers ELSE {Pool}]
    /\ rwaFrozen \in SUBSET Actors
    /\ rwaWhitelist \in SUBSET Actors
    /\ rwaKycVerified \in SUBSET Actors
    /\ \E lapsing \in SUBSET Actors :
           rwaKycExpiry = [a \in Addr |-> IF a \in lapsing THEN 1
                                          ELSE KYC_VALIDITY_PERIOD]

NextToken ==
    \/ Tick
    \/ CallRwaTransfer
    \/ CallRwaTransferFrom

TokenSpec == TokenInit /\ [][NextToken]_vars

(* ------------------------- calls to Governance ------------------------ *)
\* Write back the state a call to Governance returned.
CommitGovernance(g) ==
    /\ proposals' = g.proposals
    /\ votes' = g.votes
    /\ proposalCount' = g.proposalCount
    /\ UNCHANGED <<now, ledgerVars, rwaConfigVars, rwaAllowance, vaultVars, historyVars,
                   gatewayVars>>

CallProposeChange ==
    \E sender \in Actors :
        LET r == proposeChange(GovernanceState, sender) IN
        /\ r.res = "ok" => proposalCount < MaxProposals
        /\ CommitGovernance(r.st)
        /\ last' = Call("proposeChange", r)
        /\ UNCHANGED <<executions, ballots>>

CallVote ==
    \E sender \in Actors, proposalId \in ProposalIds, support \in BOOLEAN :
        LET r == vote(GovernanceState, sender, proposalId, support) IN
        /\ CommitGovernance(r.st)
        /\ last' = Call("vote", r)
        /\ ballots' = IF r.res = "ok"
                      THEN [ballots EXCEPT ![proposalId][sender] = @ + 1]
                      ELSE ballots
        /\ UNCHANGED executions

CallExecuteProposal ==
    \E proposalId \in ProposalIds, success \in BOOLEAN :
        LET r == executeProposal(GovernanceState, proposalId, success) IN
        /\ r.res = "ok" => executions[proposalId] < MaxExecutions
        /\ CommitGovernance(r.st)
        /\ last' = Call("executeProposal", r)
        /\ executions' = IF r.res = "ok"
                         THEN [executions EXCEPT ![proposalId] = @ + 1]
                         ELSE executions
        /\ UNCHANGED ballots

CallCancelProposal ==
    \E sender \in Actors, proposalId \in ProposalIds :
        LET r == cancelProposal(GovernanceState, sender, proposalId) IN
        /\ CommitGovernance(r.st)
        /\ last' = Call("cancelProposal", r)
        /\ UNCHANGED <<executions, ballots>>

\* Governance deployed over the dUSD token, of which both accounts hold the
\* same amount.
GovernanceInit ==
    /\ PoolDeployedAt(Actors, InitialMint, Rates)
    /\ AssetTokenDeployed
    /\ RelayerStarted
    /\ VaultDeployed({}, 0)
    /\ GovernanceDeployed

NextGovernance ==
    \/ Tick
    \/ CallProposeChange
    \/ CallVote
    \/ CallExecuteProposal
    \/ CallCancelProposal

GovernanceSpec == GovernanceInit /\ [][NextGovernance]_vars

\* One asset flow through the registered token: minted to the pool, moved to
\* Alice, burnt from Alice.
ReplayMints == {q \in MintPayloads : q.valuation = MAX_VALUATION /\ q.to = Pool}
ReplayTransfers == {q \in TransferPayloads : q.to = Alice}
ReplayBurns == {q \in BurnPayloads : q.from = Alice}

\* The signatures `signer` has made over a message with the fields of
\* `action`, for every type and every domain but the ones of the call.
ForeignSignatures(signer, typ, action) ==
    {signTypedMessage(signer, k[1], k[2], action) :
         k \in (({PoolDomain} \cup OtherDomains)
                \X {DepositType, WithdrawType, MintType, TransferType, BurnType})
               \ {<<PoolDomain, typ>>}}

\* An account calls an entry point with its current nonce, a deadline that has
\* not passed and a signature of its own that was made for another type of
\* action, another contract or another chain.
CallWithForeignSignature ==
    \E sender \in Actors, rwaToken \in {RwaTarget} :
        \E c \in {[typ |-> DepositType, action |-> DepositAction(p, n)] :
                      p \in UnitPayloads, n \in Stamps}
                 \cup {[typ |-> WithdrawType, action |-> WithdrawAction(p, n)] :
                           p \in UnitPayloads, n \in Stamps}
                 \cup {[typ |-> MintType, action |-> MintRWAAction(p, n)] :
                           p \in ReplayMints, n \in Stamps}
                 \cup {[typ |-> TransferType, action |-> TransferRWAAction(p, n)] :
                           p \in ReplayTransfers, n \in Stamps}
                 \cup {[typ |-> BurnType, action |-> BurnRWAAction(p, n)] :
                           p \in ReplayBurns, n \in Stamps} :
            /\ c.action.nonce = nonces[sender] /\ c.action.deadline = MaxTime
            /\ \E signature \in ForeignSignatures(sender, c.typ, c.action) :
                   LET r == Run(State, sender,
                                Envelope(c.typ, sender, c.action, signature, rwaToken))
                   IN  /\ r.res = "ok" => nonces[sender] < MaxNonce
                       /\ Commit(r.st)
                       /\ last' = Call("foreignSignature", r)
                       /\ nonceLog' = IF r.res = "ok"
                                      THEN [nonceLog EXCEPT ![sender] =
                                                Append(@, c.action.nonce)]
                                      ELSE nonceLog
                       /\ UNCHANGED watched

\* The verifier: the pool's five delegated entry points, called by any
\* account with any envelope, as time passes.
Next ==
    \/ Tick
    \/ CallExecuteDeposit(UnitPayloads, {FALSE})
    \/ CallExecuteWithdraw(UnitPayloads, {FALSE})
    \/ CallExecuteMintRWA(MintPayloads, Targets, {FALSE})
    \/ CallExecuteTransferRWA(TransferPayloads, Targets, {FALSE})
    \/ CallExecuteBurnRWA(BurnPayloads, Targets, {FALSE})

Spec == Init /\ [][Next]_vars

\* The verifier and one asset flow through the registered token, called also
\* with signatures made for something else.
NextDomain ==
    \/ Tick
    \/ CallExecuteDeposit(UnitPayloads, {FALSE})
    \/ CallExecuteWithdraw(UnitPayloads, {FALSE})
    \/ CallExecuteMintRWA(ReplayMints, {RwaTarget}, {FALSE})
    \/ CallExecuteTransferRWA(ReplayTransfers, {RwaTarget}, {FALSE})
    \/ CallExecuteBurnRWA(ReplayBurns, {RwaTarget}, {FALSE})
    \/ CallWithForeignSignature

DomainSpec == Init /\ [][NextDomain]_vars

\* The pool's accrual bookkeeping: the direct entry points next to the two
\* delegated ones that share it.
NextAccrual ==
    \/ Tick
    \/ CallAccrue
    \/ CallDeposit
    \/ CallWithdraw
    \/ CallExecuteDeposit(DepositPayloads, {FALSE})
    \/ CallExecuteWithdraw(WithdrawPayloads, {FALSE})

AccrualSpec == Init /\ [][NextAccrual]_vars

\* The same bookkeeping for a pool deployed with the rate of the test as well.
PrecisionSpec ==
    DeployedAt({Alice}, InitialMint, Rates \cup TestRates) /\ [][NextAccrual]_vars

\* The verifier, with one executed envelope kept to be submitted again.
NextReplay ==
    \/ Tick
    \/ CallExecuteDeposit(UnitPayloads, BOOLEAN)
    \/ CallExecuteWithdraw(UnitPayloads, BOOLEAN)
    \/ CallExecuteMintRWA(ReplayMints, {RwaTarget}, BOOLEAN)
    \/ CallExecuteTransferRWA(ReplayTransfers, {RwaTarget}, BOOLEAN)
    \/ CallExecuteBurnRWA(ReplayBurns, {RwaTarget}, BOOLEAN)
    \/ Resubmit

ReplaySpec == Init /\ [][NextReplay]_vars

(* ------------------------------- claims -------------------------------- *)
\* The reasons verify reverts with.
VerifyReasons == {"Signature expired", "Invalid nonce", "Invalid signature"}

\* Every call an account can make to a delegated entry point: the action and,
\* for the asset actions, the target.
Submissions ==
    {[typ |-> DepositType, action |-> a, rwaToken |-> None] : a \in DepositActions}
    \cup {[typ |-> WithdrawType, action |-> a, rwaToken |-> None] : a \in WithdrawActions}
    \cup {[typ |-> MintType, action |-> a, rwaToken |-> g] :
              a \in MintActions, g \in Targets}
    \cup {[typ |-> TransferType, action |-> a, rwaToken |-> g] :
              a \in TransferActions, g \in Targets}
    \cup {[typ |-> BurnType, action |-> a, rwaToken |-> g] : a \in BurnActions, g \in Targets}

\* The envelope for a call, signed by `signer`.
Signed(signer, c) ==
    Envelope(c.typ, signer, c.action, Sign(signer, c.typ, c.action), c.rwaToken)

\* C1: after any sequence of calls to the five delegated entry points, each
\* account's stored nonce equals the number of delegated actions it has
\* executed, no two of these carried the same nonce, and a stored nonce never
\* decreases.
C1_NonceCountsExecutions ==
    /\ [](\A a \in Actors :
              /\ nonces[a] = Len(nonceLog[a])
              /\ \A i, j \in 1..Len(nonceLog[a]) :
                     nonceLog[a][i] = nonceLog[a][j] => i = j)
    /\ [][\A a \in Actors : nonces'[a] >= nonces[a]]_vars

\* Both accounts have executed delegated actions, and the last call was
\* rejected for its nonce.
C1_Witness ==
    /\ nonces[Alice] = 2 /\ nonces[Relayer] = 1
    /\ last.res = "Invalid nonce"

C3_RelayedEnvelopeExecutes ==
    \A action \in DepositActions :
        (/\ action.nonce = nonces[Alice] /\ now <= action.deadline
         /\ action.amount <= dusdBal[Alice] /\ action.amount <= dusdAllowance[Alice])
        => LET r == executeDeposit(State, Relayer, action,
                                   Sign(Alice, DepositType, action))
           IN  /\ r.res = "ok"
               /\ r.st.nonces[Alice] = nonces[Alice] + 1
               /\ r.st.deposits[Alice] = deposits[Alice] + action.amount

\* C4: at every delegated entry point an envelope whose deadline is earlier
\* than the current time reverts with "Signature expired", whatever its nonce
\* and whoever signed it, and leaves the state as it was.
C4_ExpiredAlwaysExpiry ==
    \A c \in Submissions :
        c.action.deadline < now =>
            \A sender \in Actors, signer \in Actors :
                Run(State, sender, Signed(signer, c)) = Revert(State, "Signature expired")

\* An envelope was rejected as expired after the account's nonce had moved on.
C4_Witness ==
    /\ last.res = "Signature expired" /\ last.fn = "executeBurnRWA"
    /\ \E a \in Actors : nonces[a] > 0

\* C5 (as amended): an envelope signed by one account and submitted by another
\* always reverts with one of verify's reasons and changes nothing, neither
\* account's nonce nor any ledger entry; the reason is "Invalid signature"
\* when the deadline has not passed and the envelope's nonce is the
\* submitter's stored nonce.
C5_ForeignSignatureRejected ==
    \A c \in Submissions, A \in Actors :
        \A B \in Actors \ {A} :
            LET r == Run(State, B, Signed(A, c)) IN
            /\ r.st = State
            /\ r.res \in VerifyReasons
            /\ (now <= c.action.deadline /\ c.action.nonce = nonces[B])
                   => r.res = "Invalid signature"

\* A call was rejected for its signature while the two accounts' nonces
\* differ, so that an envelope can carry the signer's nonce and not the
\* submitter's.
C5_Witness ==
    /\ last.res = "Invalid signature"
    /\ nonces[Alice] # nonces[Relayer]

\* C5 (as stated): an envelope signed by one account and submitted by another
\* fails with "Invalid signature".
C5_ForeignSignatureInvalidSignature ==
    \A c \in Submissions, A \in Actors :
        \A B \in Actors \ {A} : Run(State, B, Signed(A, c)).res = "Invalid signature"

\* An envelope for the call c that differs from the one the sender should
\* submit in one respect: the next nonce instead of the stored one, a deadline
\* that has passed, or another account's signature.
Spoiled(c, sender) ==
    {Signed(sender, [c EXCEPT !.action.nonce = c.action.nonce + 1])}
    \cup {Signed(sender, [c EXCEPT !.action.deadline = d]) :
              d \in {x \in Deadlines : x < now}}
    \cup {Signed(signer, c) : signer \in Actors \ {sender}}

\* C6: a call rejected for a wrong nonce, a deadline that has passed or a
\* signer who is not the sender leaves the whole state as it was, the sender's
\* nonce, deposits, scaledDeposits, index and lastUpdate included; and the
\* corrected envelope, signed by the sender with the sender's stored nonce and
\* a deadline that has not passed, then passes verify: it executes, advancing
\* the nonce by one, or reverts for a reason of the action itself; a deposit
\* the sender can fund executes.
C6_RejectionIsRetryable ==
    \A c \in Submissions, sender \in Actors :
        (c.action.nonce = nonces[sender] /\ now <= c.action.deadline) =>
            \A e \in Spoiled(c, sender) :
                LET r == Run(State, sender, e)
                    again == Run(r.st, sender, Signed(sender, c))
                IN  /\ r.res \in VerifyReasons
                    /\ r.st = State
                    /\ again.res \notin VerifyReasons
                    /\ again.res = "ok" => again.st.nonces[sender] = nonces[sender] + 1
                    /\ (c.typ = DepositType
                        /\ c.action.amount <= dusdBal[sender]
                        /\ c.action.amount <= dusdAllowance[sender])
                           => again.res = "ok"

\* A deposit envelope was rejected for its nonce by an account that has
\* executed an action before and can still fund a deposit.
C6_Witness ==
    /\ last.fn = "executeDeposit" /\ last.res = "Invalid nonce"
    /\ nonces[Alice] = 1 /\ dusdBal[Alice] > 0

\* Whether a call's action has an effect that shows in the state.
Effective(c) ==
    /\ c.action.amount > 0
    /\ c.typ = TransferType => c.action.to # Pool

\* C7 (as stated): at every delegated entry point, the asset actions with
\* their caller-supplied target included, the nonce advances exactly when the
\* action's effect is applied.
C7_NonceAndEffectTogether ==
    \A c \in Submissions, sender \in Actors :
        LET r == Run(State, sender, Signed(sender, c)) IN
        Effective(c) =>
            ((r.st.nonces # nonces) <=> ([r.st EXCEPT !.nonces = nonces] # State))

\* C8 (as amended): of two requests that carry envelopes of the same signer
\* with the same nonce, in every interleaving at most one executes; once one
\* has executed, the other is rejected by the verifier, with "Invalid nonce"
\* if it arrives no later than its deadline and with "Signature expired" if it
\* arrives after it; and a rejected request leaves the pool's state as it was.
C8_AtMostOneExecutes ==
    /\ [](\A i, j \in 1..Len(replies) :
              (/\ i < j
               /\ replies[i].signature.signer = replies[j].signature.signer
               /\ replies[i].action.nonce = replies[j].action.nonce
               /\ replies[i].reason = "ok")
              => replies[j].reason =
                     IF replies[j].at > replies[j].action.deadline
                     THEN "Signature expired" ELSE "Invalid nonce")
    /\ [][(Len(replies') > Len(replies) /\ replies'[Len(replies')].reason # "ok")
              => UNCHANGED ledgerVars]_vars

\* Two requests with the relayer's own envelopes and one nonce: the first
\* executed, the second was rejected for its nonce.
C8_Witness ==
    /\ Len(replies) = 2
    /\ replies[1].reason = "ok" /\ replies[2].reason = "Invalid nonce"
    /\ replies[1].action.nonce = replies[2].action.nonce
    /\ replies[1].signature.signer = replies[2].signature.signer

\* C8 (as stated): once one of the two has executed, the one that reaches the
\* verifier second fails with "Invalid nonce".
C8_SecondFailsInvalidNonce ==
    \A i, j \in 1..Len(replies) :
        (/\ i < j
         /\ replies[i].signature.signer = replies[j].signature.signer
         /\ replies[i].action.nonce = replies[j].action.nonce
         /\ replies[i].reason = "ok")
        => replies[j].reason = "Invalid nonce"

\* C9: whatever is called, accrue, deposit, withdraw or a delegated entry
\* point, as time passes, the index never decreases, and previewBalance of an
\* account never decreases across a step that is not a withdrawal by that
\* account.
C9_AccrualMonotone ==
    [][/\ index' >= index
       /\ \A a \in Actors :
              deposits'[a] >= deposits[a]
                  => previewBalance(State', a) >= previewBalance(State, a)]_vars

\* Interest has accrued on Alice's deposit and shows in her balance.
C9_Witness ==
    /\ last.fn = "accrue" /\ index > RAY
    /\ previewBalance(State, Alice) > deposits[Alice]

\* C10: in every reachable state, for every account and amount, a deposit that
\* succeeds followed at the same timestamp by a withdrawal of the same amount
\* succeeds too and leaves the account's deposits and scaledDeposits as they
\* were before the deposit.
C10_RoundTrip ==
    \A a \in Actors, X \in Amounts :
        LET d == deposit(State, a, X) IN
        d.res = "ok" =>
            LET w == withdraw(d.st, a, X) IN
            /\ w.res = "ok"
            /\ w.st.deposits[a] = deposits[a]
            /\ w.st.scaledDeposits[a] = scaledDeposits[a]

\* A withdrawal has just returned funds at an index above its initial value,
\* where amounts no longer convert exactly, and Alice can deposit again.
C10_Witness ==
    /\ last.fn = "withdraw" /\ last.res = "ok"
    /\ index > RAY /\ lastUpdate = now
    /\ \E X \in Amounts : X > 0 /\ deposit(State, Alice, X).res = "ok"

\* C11: previewBalance is a function of the state alone (it is given the state
\* and returns a number), and its value is scaledDeposits[user] * i / RAY,
\* rounded down, where i is the index accrue would store if it were called at
\* the same timestamp; accruing first does not change the value.
C11_PreviewMatchesAccrue ==
    \A a \in Actors :
        LET accrued == accrue(State) IN
        /\ previewBalance(State, a) = (scaledDeposits[a] * accrued.index) \div RAY
        /\ previewBalance(accrued, a) = previewBalance(State, a)
        /\ accrued.scaledDeposits = scaledDeposits

\* Interest is pending on Alice's deposit: the stored index is still the one
\* she deposited at, accrue would raise it, and the preview already shows a
\* balance above what the stored index gives.
C11_Witness ==
    /\ lastUpdate < now /\ accrue(State).index > index
    /\ deposits[Alice] > 0
    /\ previewBalance(State, Alice) > (scaledDeposits[Alice] * index) \div RAY

\* C12 (as stated): a deposit of amount 0, by deposit or by executeDeposit with
\* an envelope that passes verify, fails and changes no state; in particular
\* it does not consume a nonce.
C12_ZeroDepositRejected ==
    \A a \in Actors :
        LET direct == deposit(State, a, 0)
            action == [amount |-> 0, nonce |-> nonces[a], deadline |-> now]
            delegated == executeDeposit(State, a, action, Sign(a, DepositType, action))
        IN  /\ direct.res # "ok" /\ direct.st = State
            /\ delegated.res # "ok" /\ delegated.st = State

\* C13: a withdrawal of more than the account's deposits, by withdraw or by
\* executeWithdraw with an envelope that passes verify, reverts with
\* "Insufficient balance" and leaves the whole state as it was, deposits,
\* scaledDeposits, nonce and token balances included; a withdrawal that
\* succeeds lowers the account's deposits by exactly the amount, pays the
\* amount to the account, and (delegated) advances the nonce by one.
C13_WithdrawChecksPrincipal ==
    \A a \in Actors, X \in 0..(MaxAmount + 1) :
        LET direct == withdraw(State, a, X)
            action == [amount |-> X, nonce |-> nonces[a], deadline |-> now]
            delegated == executeWithdraw(State, a, action, Sign(a, WithdrawType, action))
            Paid(r) == /\ r.st.deposits = [deposits EXCEPT ![a] = @ - X]
                       /\ r.st.dusdBal[a] = dusdBal[a] + X
                       /\ r.st.dusdBal[Pool] = dusdBal[Pool] - X
        IN  /\ X > deposits[a] =>
                   /\ direct = Revert(State, "Insufficient balance")
                   /\ delegated = Revert(State, "Insufficient balance")
            /\ direct.res = "ok" => Paid(direct) /\ direct.st.nonces = nonces
            /\ delegated.res = "ok" =>
                   Paid(delegated) /\ delegated.st.nonces = [nonces EXCEPT ![a] = @ + 1]

\* Alice, who deposited one unit through executeDeposit, asked for more
\* through executeWithdraw and was refused; her nonce is the one she had.
C13_Witness ==
    /\ last.fn = "executeWithdraw" /\ last.res = "Insufficient balance"
    /\ deposits[Alice] = 1 /\ nonces[Alice] = 1

\* C21 (as stated): when time has passed since lastUpdate and ratePerSecond is
\* positive, accrue() leaves the index strictly above what it was.
C21_AccrueRaisesIndex ==
    (now > lastUpdate /\ ratePerSecond > 0) => accrue(State).index > index

\* C22: a signature an account made over the fields of an action for another
\* type of action, for another contract or for another chain never passes
\* verify, whatever account submits it, even with the current nonce and a
\* deadline that has not passed: verify answers "Invalid signature" then, and
\* a call made with such a signature changes nothing.
C22_ForeignSignatureNeverVerifies ==
    /\ [](\A c \in {[typ |-> x.typ, action |-> x.action] : x \in Submissions},
             sender \in Actors, signer \in Actors :
              (c.action.nonce = nonces[sender] /\ now <= c.action.deadline) =>
                  \A signature \in ForeignSignatures(signer, c.typ, c.action) :
                      verify(State, sender, c.typ, c.action, signature)
                          = "Invalid signature")
    /\ [][last'.fn = "foreignSignature" =>
              /\ last'.res = "Invalid signature"
              /\ UNCHANGED <<ledgerVars, historyVars>>]_vars

\* Alice, who has deposited through executeDeposit, has just offered a
\* signature of hers made for something else and was refused; a withdrawal
\* envelope with the fields of a deposit envelope she could sign now would be
\* accepted with its own signature and is refused with the deposit's.
C22_Witness ==
    /\ last.fn = "foreignSignature" /\ last.res = "Invalid signature"
    /\ deposits[Alice] > 0 /\ nonces[Alice] = 1
    /\ LET action == [amount |-> 1, nonce |-> 1, deadline |-> MaxTime] IN
       /\ verify(State, Alice, WithdrawType, action, Sign(Alice, WithdrawType, action))
              = "ok"
       /\ verify(State, Alice, WithdrawType, action, Sign(Alice, DepositType, action))
              = "Invalid signature"

\* C23 (as stated): in every reachable state the pool's balance of dUSD is at
\* least the sum of the deposits of all accounts.
C23_PoolHoldsDeposits ==
    dusdBal[Pool] >= deposits[Alice] + deposits[Relayer]

\* C24 (as stated): a delegated transfer or burn that executes lowers no token
\* balance but that of the account that signed it, whatever the target.
C24_OnlySignerBalanceDecreases ==
    \A c \in Submissions, sender \in Actors :
        c.typ \in {TransferType, BurnType} =>
            LET r == Run(State, sender, Signed(sender, c)) IN
            r.res = "ok" =>
                \A a \in Addr \ {sender} :
                    /\ r.st.rwaBal[a] >= rwaBal[a]
                    /\ r.st.dusdBal[a] >= dusdBal[a]

\* C25: in each of the five delegated entry points, for every envelope and
\* caller, the increment of the nonce runs only after the deadline, nonce and
\* signer requires have all passed, and every other statement (accrual,
\* ledger writes, token transfers, the call to the target) runs after it; the
\* increment is the one statement that changes a nonce and it changes nothing
\* else; and the statements add up to the transaction: when all pass, the
\* state the last leaves is the state the call returns, and when one fails
\* the call reverts to the state it started from.
C25_NonceAfterChecksBeforeEffects ==
    \A c \in Submissions, sender \in Actors, signer \in Actors :
        LET e == Signed(signer, c)
            tr == Statements(State, sender, e)
            r == Run(State, sender, e)
            Before(i) == IF i = 1 THEN State ELSE tr[i - 1].st
            Checks == {"require deadline", "require nonce", "require signer"}
        IN  /\ \A i \in 1..Len(tr) :
                   /\ tr[i].op = "nonces++" =>
                          /\ \A q \in Checks : \E j \in 1..(i - 1) : tr[j].op = q /\ tr[j].ok
                          /\ tr[i].st = bumpNonce(Before(i), sender)
                   /\ tr[i].op \notin Checks \cup {"nonces++"} =>
                          \E j \in 1..(i - 1) : tr[j].op = "nonces++"
                   /\ tr[i].op # "nonces++" => tr[i].st.nonces = Before(i).nonces
            /\ IF \A i \in 1..Len(tr) : tr[i].ok
               THEN r = Ok(tr[Len(tr)].st) /\ r.st.nonces[sender] = nonces[sender] + 1
               ELSE r.res # "ok" /\ r.st = State

\* Alice, who has executed one delegated action, had a burn refused by the
\* token: the transaction got past the three requires and the increment and
\* failed at the require on the call's success, and her nonce is as before.
C25_Witness ==
    /\ last.fn = "executeBurnRWA" /\ last.res = "RWA burn failed"
    /\ nonces[Alice] = 1
    /\ LET action == BurnRWAAction([from |-> Alice, amount |-> 1],
                                   [nonce |-> 1, deadline |-> MaxTime])
           tr == Statements(State, Alice,
                            Signed(Alice, [typ |-> BurnType, action |-> action,
                                           rwaToken |-> RwaTarget]))
       IN  /\ Len(tr) = 6 /\ ~tr[6].ok
           /\ tr[4].op = "nonces++" /\ tr[4].st.nonces[Alice] = 2

\* C26: for every account and amount, an envelope of the account that passes
\* verify makes executeDeposit (executeWithdraw) succeed exactly when deposit
\* (withdraw) of the same amount by the account at the same timestamp does,
\* fail for the same reason, and return the same state but for the account's
\* nonce, which is one higher; that state has deposits changed by the amount,
\* scaledDeposits by amount * RAY / index at the freshly accrued index, index
\* and lastUpdate as accrue leaves them, and the amount moved between the
\* account and the pool.
C26_DelegatedEqualsDirect ==
    \A a \in Actors, X \in Amounts :
        LET action == [amount |-> X, nonce |-> nonces[a], deadline |-> now]
            d == deposit(State, a, X)
            ed == executeDeposit(State, a, action, Sign(a, DepositType, action))
            w == withdraw(State, a, X)
            ew == executeWithdraw(State, a, action, Sign(a, WithdrawType, action))
            accrued == accrue(State)
            scaled == (X * RAY) \div accrued.index
        IN  /\ ed.res = d.res /\ ew.res = w.res
            /\ ed.st = IF d.res = "ok" THEN bumpNonce(d.st, a) ELSE State
            /\ ew.st = IF w.res = "ok" THEN bumpNonce(w.st, a) ELSE State
            /\ d.res = "ok" =>
                   d.st = [accrued EXCEPT !.deposits[a] = @ + X,
                                          !.scaledDeposits[a] = @ + scaled,
                                          !.dusdBal[a] = @ - X,
                                          !.dusdBal[Pool] = @ + X,
                                          !.dusdAllowance[a] = @ - X]
            /\ w.res = "ok" =>
                   w.st = [accrued EXCEPT !.deposits[a] = @ - X,
                                          !.scaledDeposits[a] = @ - scaled,
                                          !.dusdBal[a] = @ + X,
                                          !.dusdBal[Pool] = @ - X]

\* Alice has just deposited through executeDeposit after interest had
\* accrued: the index she was converted at is above RAY and fresh, and her
\* scaledDeposits are below her deposits.
C26_Witness ==
    /\ last.fn = "executeDeposit" /\ last.res = "ok"
    /\ index > RAY /\ lastUpdate = now
    /\ deposits[Alice] = MaxAmount /\ scaledDeposits[Alice] < deposits[Alice]
    /\ nonces[Alice] = 1

\* C27: the index starts at RAY with lastUpdate at the time of deployment; a
\* step changes index or lastUpdate only if it is a successful accrue,
\* deposit, withdraw, executeDeposit or executeWithdraw, and then to the
\* values accrue computes, with lastUpdate the current time; accrue is
\* idempotent, and an accrue at the timestamp of the previous accrual changes
\* neither index nor lastUpdate.
C27_OnlyAccrueWritesIndex ==
    /\ index = RAY /\ lastUpdate = now
    /\ [](/\ accrue(accrue(State)) = accrue(State)
          /\ lastUpdate = now => accrue(State) = State)
    /\ [][/\ (index' # index \/ lastUpdate' # lastUpdate) =>
                 /\ last'.fn \in {"accrue", "deposit", "withdraw", "executeDeposit",
                                  "executeWithdraw"}
                 /\ last'.res = "ok"
                 /\ index' = accrue(State).index
                 /\ lastUpdate' = now
          /\ (last'.fn = "accrue" /\ lastUpdate = now) =>
                 (index' = index /\ lastUpdate' = lastUpdate)]_vars

\* accrue has just run after interest had accrued before: the index is above
\* RAY, lastUpdate is the current time, and another accrue would change
\* nothing.
C27_Witness ==
    /\ last.fn = "accrue" /\ lastUpdate = now /\ now = MaxTime
    /\ index = RAY + (MaxTime * ratePerSecond) \div RAY
    /\ accrue(State) = State

\* C28 (as stated): POST /api/deposit goes on to the verifier with every
\* request whose four fields are present and strings, whose amount is above 0
\* and whose deadline lies within the hour after the current time, whatever
\* the size of the amount.
C28_ValidatedRequestsForwarded ==
    \A body \in Bodies :
        (/\ \A x \in {"amount", "nonce", "deadline", "signature"} :
                ~falsy(body[x]) /\ typeof(body[x]) = "string"
         /\ numeric(body.amount) /\ numeric(body.nonce) /\ numeric(body.deadline)
         /\ parseEther(body.amount) > 0
         /\ now < parseInt(body.deadline)
         /\ parseInt(body.deadline) <= now + MaxDeadlineWindow)
        => postDeposit(transactionLog, body, now).status = 0

\* C29 (as stated): for a request that is in order otherwise, POST
\* /api/deposit answers SIGNATURE_EXPIRED exactly when the verifier would
\* reject the envelope as expired at the same time.
C29_SameExpiryRule ==
    \A body \in Bodies :
        (/\ \A x \in {"amount", "nonce", "deadline", "signature"} :
                ~falsy(body[x]) /\ typeof(body[x]) = "string"
         /\ numeric(body.amount) /\ numeric(body.nonce) /\ numeric(body.deadline)
         /\ parseEther(body.amount) > 0
         /\ ~checkMultiSigRequirement(parseEther(body.amount)))
        => LET action == [amount |-> parseEther(body.amount), nonce |-> BigInt(body.nonce),
                          deadline |-> BigInt(body.deadline)]
           IN  (postDeposit(transactionLog, body, now).code = "SIGNATURE_EXPIRED")
               <=> (verify(State, poolSigner, DepositType, action, body.signature.v)
                        = "Signature expired")

\* C30 (as stated): POST /api/deposit, of the relayer and of the basic
\* relayer, goes on to the verifier only with a signature that recovers to an
\* account under the verifier's own domain; an envelope signed for another
\* chain or another contract is not forwarded.
C30_OnlyVerifiedSignaturesForwarded ==
    \A d \in {PoolDomain} \cup OtherDomains, signer \in Actors :
        LET action == [amount |-> parseEther(Str(1)), nonce |-> nonces[signer],
                       deadline |-> now + 1]
            body == [amount |-> Str(1), nonce |-> Str(action.nonce),
                     deadline |-> Str(action.deadline),
                     signature |-> Str(signTypedMessage(signer, d, DepositType, action))]
        IN  \A h \in {postDeposit(transactionLog, body, now), basicPostDeposit(body, now)} :
                h.status = 0 =>
                    recover(Digest(DepositType, h.action), body.signature.v) = signer

\* C31 (as stated): when the catch block of an action route, of the relayer
\* or of the basic relayer, answers a verifier's "Invalid nonce" or "Invalid
\* signature", the log it leaves ends with an entry for that error.
C31_AuthFailuresLogged ==
    \A reason \in {"Invalid nonce", "Invalid signature"} :
        \A h \in {caught(transactionLog, revertedInSimulation(reason)),
                  basicCaught(revertedInSimulation(reason))} :
            h.status = 400 =>
                /\ Len(h.log) > 0
                /\ h.log[Len(h.log)].error = reason

\* C32 (as stated): POST /api/admin/rotate-key, which authenticates no
\* caller, never assigns signer or keyRotationTimestamp: a request from a
\* client that has not been authenticated as administrator leaves both as
\* they were.
C32_OnlyAdminRotatesKey ==
    [][last'.fn = "POST /api/admin/rotate-key"
           => UNCHANGED <<currentSigner, keyRotationTimestamp>>]_vars

\* C33: the five delegated entry points check and increment one counter per
\* account, nonces[msg.sender]: the envelopes an account has executed, of
\* whatever types, carried the nonces 0, 1, 2, ... in that order, so that none
\* with nonce N+1 executed before one with nonce N; and once an envelope has
\* executed, no envelope of its sender with the same nonce for another action
\* type executes.
C33_OneNonceSequenceAcrossTypes ==
    /\ \A a \in Actors :
           \A i \in 1..Len(nonceLog[a]) : nonceLog[a][i] = i - 1
    /\ \A e \in watched, c \in Submissions :
           (c.typ # e.typ /\ c.action.nonce = e.action.nonce)
           => Run(State, e.sender, Signed(e.sender, c)).res = "Invalid nonce"
                  \/ now > c.action.deadline

\* Alice has executed a deposit with nonce 0 and then an asset mint with
\* nonce 1; the relayer's account has executed nothing.
C33_Witness ==
    /\ \E e \in watched :
           e.typ = DepositType /\ e.sender = Alice /\ e.action.nonce = 0
    /\ nonceLog[Alice] = <<0, 1>> /\ nonceLog[Relayer] = <<>>
    /\ last = [fn |-> "executeMintRWA", res |-> "ok"]

\* C34 (as stated): a withdrawal of an amount within the account's deposits
\* succeeds whenever the pool holds that much dUSD; the scaled amount it
\* subtracts never exceeds the account's scaledDeposits.
C34_WithdrawWithinPrincipalSucceeds ==
    \A a \in Actors, amount \in Amounts :
        (amount <= deposits[a] /\ dusdBal[Pool] >= amount)
        => /\ (amount * RAY) \div accrue(State).index <= scaledDeposits[a]
           /\ withdraw(State, a, amount).res = "ok"

\* C35 (as stated): the index accrue() leaves depends only on the time since
\* the deployment (at time 0, with index RAY) and on ratePerSecond, however
\* often accrue() ran in between: it is what one accrue() over the whole time
\* yields.
C35_IndexIndependentOfAccrualTimes ==
    accrue(State).index = RAY + (now * ratePerSecond) \div RAY

\* C36 (as stated): after any sequence of deposit, borrow, repay and withdraw
\* calls to the vault at a constant price, the debt of every position is at
\* most LTV_BPS / BPS of the value of its collateral.
C36_DebtWithinLoanToValue ==
    \A a \in Actors : positions[a].debt <= getMaxBorrow(VaultState, a)

\* C37 (as stated): transfer and transferFrom of the asset token succeed only
\* if neither the account the tokens leave nor the recipient is frozen, both
\* are whitelisted and both have verified KYC that has not expired; in every
\* other case the call reverts and no balance changes.
C37_TransfersOnlyBetweenCompliantAccounts ==
    LET Compliant(a) ==
            /\ a \notin rwaFrozen
            /\ a \in rwaWhitelist
            /\ a \in rwaKycVerified /\ now <= rwaKycExpiry[a]
    IN  \A sender \in Actors, from \in Actors, to \in Actors, amount \in Amounts :
            \A r \in {rwaTransfer(State, from, to, amount),
                      rwaTransferFrom(State, sender, from, to, amount)} :
                IF Compliant(from) /\ Compliant(to)
                THEN r.res # "ok" => r.st.rwaBal = rwaBal
                ELSE r.res # "ok" /\ r.st.rwaBal = rwaBal

\* C38 (as stated): isTransferAllowed(from, to, amount) is true exactly when
\* transfer(to, amount) called by from succeeds in the same state.
C38_IsTransferAllowedMatchesTransfer ==
    \A from \in Actors, to \in Actors, amount \in Amounts :
        isTransferAllowed(State, from, to, amount)
            <=> (rwaTransfer(State, from, to, amount).res = "ok")

\* C39: every proposal is executed at most once, and only after its voting
\* period has ended, with forVotes above againstVotes and at least the
\* quorum; executed and canceled are never both true; each account's vote is
\* counted at most once, with the balance it voted with; and once a proposal
\* is executed or canceled, no call of vote, executeProposal or cancelProposal
\* changes it.
C39_ProposalLifecycle ==
    /\ [](\A id \in ProposalIds :
              LET proposal == proposals[id] IN
              /\ executions[id] <= 1
              /\ proposal.executed <=> executions[id] = 1
              /\ proposal.executed =>
                     /\ DeployTime + now > proposal.endTime
                     /\ proposal.forVotes > proposal.againstVotes
                     /\ proposal.forVotes >= QUORUM_THRESHOLD
              /\ ~(proposal.executed /\ proposal.canceled)
              /\ \A a \in Actors :
                     ballots[id][a] <= 1 /\ (a \in votes[id] <=> ballots[id][a] = 1)
              /\ proposal.forVotes + proposal.againstVotes =
                     (IF Alice \in votes[id] THEN dusdBal[Alice] ELSE 0)
                     + (IF Relayer \in votes[id] THEN dusdBal[Relayer] ELSE 0))
    /\ [][\A id \in 1..proposalCount :
              (proposals[id].executed \/ proposals[id].canceled)
              => /\ proposals'[id] = proposals[id]
                 /\ votes'[id] = votes[id]]_vars

\* The first proposal was voted for by both accounts and executed after its
\* period, and a second call of executeProposal for it has just been refused;
\* the second proposal was canceled.
C39_Witness ==
    /\ proposals[1].executed /\ executions[1] = 1
    /\ ballots[1] = [a \in Actors |-> 1]
    /\ proposals[2].canceled
    /\ last = [fn |-> "executeProposal", res |-> "Already executed"]

\* C14 (as stated): POST /api/deposit, of the relayer and of the basic
\* relayer, goes on to the verifier only with a request whose four fields are
\* present and strings, whose amount is above 0 and whose deadline lies within
\* the hour after the current time; any other request is answered with status
\* 400 and a validation or expiry code; a well-formed request whose deadline
\* has passed is answered with code SIGNATURE_EXPIRED.
C14_OnlyValidatedRequestsForwarded ==
    LET Given(x) == ~falsy(x) /\ typeof(x) = "string"
        Eligible(body, currentTime) ==
            /\ Given(body.amount) /\ Given(body.nonce) /\ Given(body.deadline)
            /\ Given(body.signature)
            /\ numeric(body.amount) /\ parseEther(body.amount) > 0
            /\ numeric(body.deadline)
            /\ currentTime < parseInt(body.deadline)
            /\ parseInt(body.deadline) <= currentTime + MaxDeadlineWindow
    IN
    \A body \in Bodies :
        \A h \in {postDeposit(transactionLog, body, now), basicPostDeposit(body, now)} :
            /\ h.status = 0 => Eligible(body, now)
            /\ ~Eligible(body, now) =>
                   /\ h.status = 400
                   /\ h.code \in {"MISSING_FIELDS", "INVALID_TYPES", "INVALID_AMOUNT",
                                  "SIGNATURE_EXPIRED", "DEADLINE_TOO_FAR"}
            /\ (/\ Eligible([body EXCEPT !.deadline = Str(now + 1)], now)
                /\ ~checkMultiSigRequirement(parseEther(body.amount))
                /\ numeric(body.deadline) /\ parseInt(body.deadline) < now)
                   => h.code = "SIGNATURE_EXPIRED"

\* C15 (as stated): every failure response of the action routes carries a code
\* of the taxonomy; a rejection by the verifier for nonce, signature or expiry
\* is reported with the matching code and any other failed execution with
\* EXECUTION_FAILED.
C15_FailuresCarryTaxonomyCode ==
    LET Taxonomy ==
            {"INVALID_NONCE", "INVALID_SIGNATURE", "SIGNATURE_EXPIRED",
             "MISSING_FIELDS", "INVALID_AMOUNT", "EXECUTION_FAILED"}
        CodeFor(reason) ==
            IF reason = "Invalid nonce" THEN "INVALID_NONCE"
            ELSE IF reason = "Invalid signature" THEN "INVALID_SIGNATURE"
            ELSE IF reason = "Signature expired" THEN "SIGNATURE_EXPIRED"
            ELSE "EXECUTION_FAILED"
    IN
    /\ \A body \in Bodies :
           \A h \in {postDeposit(transactionLog, body, now), basicPostDeposit(body, now)} :
               h.status # 0 => h.code \in Taxonomy
    /\ \A i \in 1..Len(replies) :
           replies[i].status # 200 => replies[i].code = CodeFor(replies[i].reason)
    /\ \A reason \in VerifyReasons \cup {"ERC20InsufficientBalance"} :
           /\ basicCaught(revertedInSimulation(reason)).code = CodeFor(reason)
           /\ basicCaughtRWA("RWA mint failed", revertedInSimulation(reason)).code =
                  CodeFor(reason)

\* C16: of the requests an IP sends to the routes under /api/ within one
\* window of the limiter, the first RateLimitMax reach the monitoring
\* middleware and their handler, and every further one is answered by the
\* limiter with nothing else touched: no log entry, no request taken up, no
\* key replaced, no change to the pool; a request counts for its own IP only,
\* and the end of an IP's window sets that IP's count, and no other, back to 0.
C16_LimiterPerIpPerWindow ==
    [][/\ \A ip \in IPs :
              hits'[ip] = hits[ip] + 1 =>
                  /\ \A other \in IPs \ {ip} : hits'[other] = hits[other]
                  /\ IF hits[ip] < RateLimitMax
                     THEN /\ last'.res # "RATE_LIMITED"
                          /\ \E k \in 1..Len(transactionLog') :
                                 transactionLog'[k].type = "API_ACCESS"
                     ELSE /\ last'.res = "RATE_LIMITED"
                          /\ UNCHANGED <<transactionLog, requests, replies, ledgerVars,
                                         currentSigner, keyRotationTimestamp>>
       /\ window' # window =>
              \E ip \in IPs :
                  /\ hits[ip] > 0 /\ hits'[ip] = 0
                  /\ \A other \in IPs \ {ip} : hits'[other] = hits[other]]_vars

\* In its second window one IP has just been refused, having used up its
\* requests again, while the other IP has sent one request and has more left.
C16_Witness ==
    /\ window = 1
    /\ hits[ClientIP] = RateLimitMax + 1 /\ last.res = "RATE_LIMITED"
    /\ hits[OtherIP] = 1
    /\ \E r \in requests : r.id[1] = ClientIP /\ r.id[2] = 1

\* C17 (as stated): an envelope signed by an account with the nonce the
\* nonce-lookup returns for it, submitted through the relayer, is not rejected
\* with "Invalid nonce".
C17_LookedUpNonceIsAccepted ==
    \A A \in Actors :
        LET action == [amount |-> Ether, nonce |-> getNonce(State, A), deadline |-> now]
        IN  executeDeposit(State, poolSigner, action,
                           Sign(A, DepositType, action)).res # "Invalid nonce"

\* C18 (as stated): a request the relayer takes up is sent to the verifier from
\* the account of the key that was current when it was taken up.
C18_SubmissionsUseCurrentKey ==
    \A i \in 1..Len(replies) : replies[i].sender = replies[i].key

\* C19 (as stated): every request a route has taken up is eventually answered.
C19_EveryRequestAnswered ==
    \A n \in 1..RateLimitMax :
        (\E r \in requests : r.id[3] = n) ~> ~(\E r \in requests : r.id[3] = n)

\* C20 (as stated): no error response carries the text of the internal error:
\* none has a details field.
C20_ErrorsCarryNoInternalText ==
    /\ \A body \in Bodies :
           \A h \in {postDeposit(transactionLog, body, now), basicPostDeposit(body, now)} :
               h.details = NoDetails
    /\ \A i \in 1..Len(replies) : replies[i].details = NoDetails
    /\ \A reason \in VerifyReasons :
           basicCaughtRWA("RWA mint failed", revertedInSimulation(reason)).details
               = NoDetails

\* The relayer in front of the pool: requests arrive, are validated, sent and
\* mined, in every interleaving.  The relayer's account holds the dUSD its
\* deposits draw on.
GatewayInit == Deployed({poolSigner}, RateLimitMax * Ether)

NextGateway ==
    \/ Tick
    \/ PostDeposit({ClientIP}, Bodies)
    \/ SendDeposit
    \/ MineDeposit

GatewaySpec == GatewayInit /\ [][NextGateway]_vars

\* The bodies the service is explored with: the relayer's own envelope, the
\* same envelope signed by Alice, and a body without its amount.
ServiceBodies ==
    {encode([amount |-> 1, nonce |-> 0, deadline |-> MaxTime, signer |-> s]) :
         s \in Actors}
    \cup {[encode([amount |-> 1, nonce |-> 0, deadline |-> MaxTime, signer |-> Alice])
              EXCEPT !.amount = Absent]}

\* The limiter in front of the routes under /api/: clients at several IPs
\* post deposits and key replacements while the limiter's windows pass.
NextLimiter ==
    \/ PostDeposit(IPs, ServiceBodies)
    \/ RotateKey(IPs)
    \/ LimiterWindowEnds

LimiterSpec == GatewayInit /\ [][NextLimiter]_vars

\* The relayer while its key is replaced.
NextRotation ==
    \/ Tick
    \/ PostDeposit({ClientIP}, ServiceBodies)
    \/ SendDeposit
    \/ MineDeposit
    \/ RotateKey({ClientIP})

RotationSpec == GatewayInit /\ [][NextRotation]_vars

\* The relayer on a network that can drop a transaction, with its scheduling:
\* a handler suspended at an await resumes when the awaited call settles, and
\* the network mines a transaction it has not dropped.
NextLive ==
    \/ Tick
    \/ PostDeposit({ClientIP}, ServiceBodies)
    \/ SendDeposit
    \/ MineDeposit
    \/ DropTransaction

LiveSpec ==
    /\ GatewayInit /\ [][NextLive]_vars
    /\ WF_vars(SendDeposit) /\ WF_vars(MineDeposit)

====
